---------------------------- MODULE Spec2Model ----------------------------
(***************************************************************************)
(* A model of the stock screener: the value coercion, the two screens, the *)
(* ranking, and the sort/filter/paginate table.                            *)
(*                                                                         *)
(* Strings are sequences of one-character strings, so that toLowerCase,   *)
(* includes, the [^0-9.-] strip and parseFloat are computed and not        *)
(* assumed.  Numbers are fixed point, in tenths: the number 95 is 950 and  *)
(* 0.1 is 1.  A percentage (threshold, tolerance) is in tenths of a        *)
(* percent too.  Ratios are compared by cross-multiplication, which is     *)
(* exact where the code's double division is exact or monotone.            *)
(***************************************************************************)
EXTENDS Integers, Sequences, FiniteSets, TLC

VARIABLES
    data,           \* the row set handed to the operation or to the table
    priceColumn,    \* the price column name passed in ("" = not resolved)
    highColumn,     \* the high column name passed in ("" = not resolved)
    threshold,      \* percentThreshold / tolerancePercent of the last screen
    result,         \* what the last pure operation returned
    op,             \* the last operation performed
    sortConfig,     \* DataTable state: null or {key, direction}
    filters,        \* DataTable state: column name -> pattern
    currentPage,    \* DataTable state: 1-based page
    headers,        \* AppMain state: the header list of the parsed file
    uploadStatus,   \* FileUpload state: {status, message}
    fileName,       \* FileUpload state: the name of the chosen file
    copySuccess,    \* useStockAnalysis state: the copy-success indicator
    pending         \* asynchronous work in flight: file reads, clipboard
                    \* writes, timers

appVars == <<headers, uploadStatus, fileName, copySuccess, pending>>

vars == <<data, priceColumn, highColumn, threshold, result, op,
          sortConfig, filters, currentPage, appVars>>

\* the application before any upload or copy request
AppIdle ==
    /\ headers = <<>>
    /\ uploadStatus = [status |-> "idle", message |-> ""]
    /\ fileName = ""
    /\ copySuccess = FALSE
    /\ pending = {}

-----------------------------------------------------------------------------
(* Characters and strings                                                  *)

UpperChars == <<"A","B","C","D","E","F","G","H","I","J","K","L","M",
                "N","O","P","Q","R","S","T","U","V","W","X","Y","Z">>
LowerChars == <<"a","b","c","d","e","f","g","h","i","j","k","l","m",
                "n","o","p","q","r","s","t","u","v","w","x","y","z">>
DigitChars == <<"0","1","2","3","4","5","6","7","8","9">>

\* the lower-case letter of each upper-case letter
LowerOf ==
    [c \in {UpperChars[i] : i \in 1..26} |->
        LowerChars[CHOOSE i \in 1..26 : UpperChars[i] = c]]

\* String.prototype.toLowerCase, one character
toLowerChar(c) == IF c \in DOMAIN LowerOf THEN LowerOf[c] ELSE c

\* String.prototype.toLowerCase
toLowerCase(s) == [i \in 1..Len(s) |-> toLowerChar(s[i])]

\* String.prototype.includes
includes(s, sub) ==
    \E i \in 0..(Len(s) - Len(sub)) : SubSeq(s, i + 1, i + Len(sub)) = sub

\* the comparison of two strings by < (code units, left to right)
CharCode(c) ==
    IF \E i \in 1..10 : DigitChars[i] = c
    THEN 48 + (CHOOSE i \in 1..10 : DigitChars[i] = c) - 1
    ELSE IF \E i \in 1..26 : UpperChars[i] = c
    THEN 65 + (CHOOSE i \in 1..26 : UpperChars[i] = c) - 1
    ELSE IF \E i \in 1..26 : LowerChars[i] = c
    THEN 97 + (CHOOSE i \in 1..26 : LowerChars[i] = c) - 1
    ELSE IF c = " " THEN 32
    ELSE IF c = "$" THEN 36
    ELSE IF c = "%" THEN 37
    ELSE IF c = "," THEN 44
    ELSE IF c = "-" THEN 45
    ELSE IF c = "." THEN 46
    ELSE IF c = ":" THEN 58
    ELSE 95

StringLess(a, b) ==
    \E i \in 1..(Len(b)) :
        /\ \A j \in 1..(i - 1) : j <= Len(a) /\ a[j] = b[j]
        /\ \/ i = Len(a) + 1
           \/ i <= Len(a) /\ CharCode(a[i]) < CharCode(b[i])

-----------------------------------------------------------------------------
(* Cell values (CSVRow: string | number | boolean | null, and undefined    *)
(* for a key the row does not have) and JavaScript numbers                 *)

Num(n)    == [t |-> "number",    n |-> n, s |-> <<>>]
Str(s)    == [t |-> "string",    n |-> 0, s |-> s]
Bool(b)   == [t |-> "boolean",   n |-> IF b THEN 1 ELSE 0, s |-> <<>>]
Null      == [t |-> "null",      n |-> 0, s |-> <<>>]
Undefined == [t |-> "undefined", n |-> 0, s |-> <<>>]

\* a JavaScript number: NaN, or a finite value in tenths
NaN       == [nan |-> TRUE,  v |-> 0]
Finite(v) == [nan |-> FALSE, v |-> v]
isNaN(x)  == x.nan

\* a row is the sequence of its own (key, value) pairs in Object.keys order
Cell(k, v) == [k |-> k, v |-> v]
ObjectKeys(row) == [i \in 1..Len(row) |-> row[i].k]
HasKey(row, key) == \E i \in 1..Len(row) : row[i].k = key
\* row[key]
Get(row, key) ==
    IF HasKey(row, key)
    THEN row[CHOOSE i \in 1..Len(row) : row[i].k = key].v
    ELSE Undefined

\* Array.prototype.find over Object.keys(row): the first key among the
\* positions `hits` where the callback is true, or no key (undefined),
\* modelled as the pair (found, key)
NoKey == [found |-> FALSE, key |-> <<>>]
FindKey(row, hits) ==
    IF hits # {}
    THEN [found |-> TRUE, key |-> row[CHOOSE i \in hits : \A j \in hits : i <= j].k]
    ELSE NoKey
\* a key given by name (always "found"; it may be the empty string)
Named(key) == [found |-> TRUE, key |-> key]
\* !key : undefined and the empty string are falsy
KeyFalsy(fk) == ~fk.found \/ fk.key = <<>>
\* a || b on key values
KeyOr(name, fk) == IF name # <<>> THEN Named(name) ELSE fk

-----------------------------------------------------------------------------
(* String(value), the strip and parseFloat                                 *)

RECURSIVE NatToString(_)
NatToString(n) ==
    IF n < 10 THEN <<DigitChars[n + 1]>>
    ELSE NatToString(n \div 10) \o <<DigitChars[(n % 10) + 1]>>

\* Number::toString of a value in tenths: 950 -> "95", 955 -> "95.5"
NumberToString(v) ==
    LET a == IF v < 0 THEN -v ELSE v
        whole == NatToString(a \div 10)
        frac  == IF a % 10 = 0 THEN <<>> ELSE <<".", DigitChars[(a % 10) + 1]>>
    IN  (IF v < 0 THEN <<"-">> ELSE <<>>) \o whole \o frac

\* String(value)
StringOf(cell) ==
    CASE cell.t = "number"    -> NumberToString(cell.n)
      [] cell.t = "string"    -> cell.s
      [] cell.t = "boolean"   -> IF cell.n = 1 THEN <<"t","r","u","e">>
                                 ELSE <<"f","a","l","s","e">>
      [] cell.t = "null"      -> <<"n","u","l","l">>
      [] cell.t = "undefined" -> <<"u","n","d","e","f","i","n","e","d">>

\* value is falsy (the left operand of value || '0')
Falsy(cell) ==
    \/ cell.t \in {"null", "undefined"}
    \/ cell.t = "boolean" /\ cell.n = 0
    \/ cell.t = "string" /\ cell.s = <<>>
    \/ cell.t = "number" /\ cell.n = 0

IsDigit(c) == \E i \in 1..10 : DigitChars[i] = c
DigitValue(c) == (CHOOSE i \in 1..10 : DigitChars[i] = c) - 1

\* s.replace(/[^0-9.-]+/g, '')
StripNonNumeric(s) == SelectSeq(s, LAMBDA c : IsDigit(c) \/ c = "." \/ c = "-")

\* the length of the longest prefix of s made of digits
DigitRun(s) ==
    CHOOSE n \in 0..Len(s) :
        /\ \A i \in 1..n : IsDigit(s[i])
        /\ n = Len(s) \/ ~IsDigit(s[n + 1])

RECURSIVE DigitsToNat(_)
DigitsToNat(ds) ==
    IF Len(ds) = 0 THEN 0
    ELSE 10 * DigitsToNat(SubSeq(ds, 1, Len(ds) - 1)) + DigitValue(ds[Len(ds)])

\* parseFloat of a string over [0-9.-]: an optional sign, digits, an optional
\* point and digits; the longest such prefix is the value, and no digit at all
\* is NaN.  The value is kept to one decimal.
parseFloat(s) ==
    LET neg   == Len(s) > 0 /\ s[1] = "-"
        body  == IF neg THEN SubSeq(s, 2, Len(s)) ELSE s
        nInt  == DigitRun(body)
        rest  == SubSeq(body, nInt + 1, Len(body))
        point == Len(rest) > 0 /\ rest[1] = "."
        fracS == IF point THEN SubSeq(rest, 2, Len(rest)) ELSE <<>>
        nFrac == DigitRun(fracS)
        mag   == 10 * DigitsToNat(SubSeq(body, 1, nInt))
                 + (IF nFrac > 0 THEN DigitValue(fracS[1]) ELSE 0)
    IN  IF nInt = 0 /\ nFrac = 0 THEN NaN
        ELSE Finite(IF neg THEN -mag ELSE mag)

\* the value with no default for a falsy input: String(value) alone
extractNumericPriceNoDefault(value) ==
    IF value.t = "number" THEN Finite(value.n)
    ELSE parseFloat(StripNonNumeric(StringOf(value)))

\* extractNumericPrice
extractNumericPrice(value) ==
    IF value.t = "number" THEN Finite(value.n)
    ELSE parseFloat(StripNonNumeric(
             IF Falsy(value) THEN <<"0">> ELSE StringOf(value)))

-----------------------------------------------------------------------------
(* Column names and the needles of the heuristics                          *)

kSymbol       == <<"S","y","m","b","o","l">>
kPrice        == <<"P","r","i","c","e">>
kHighAllTime  == <<"H","i","g","h"," ","A","l","l"," ","T","i","m","e">>
kCurrentPrice == <<"C","u","r","r","e","n","t"," ","P","r","i","c","e">>
kATH          == <<"A","T","H">>
kSector       == <<"S","e","c","t","o","r">>

sPrice       == <<"p","r","i","c","e">>
sHigh        == <<"h","i","g","h">>
sAllTime     == <<"a","l","l"," ","t","i","m","e">>
sHighAllTime == <<"h","i","g","h"," ","a","l","l"," ","t","i","m","e">>
sAllTimeHigh == <<"a","l","l"," ","t","i","m","e"," ","h","i","g","h">>
sAth         == <<"a","t","h">>
sCurrent     == <<"c","u","r","r","e","n","t">>

-----------------------------------------------------------------------------
(* The screening engine                                                    *)

\* (high - price) / high <= percent / 100, for high > 0; percent in tenths
RatioAtMost(price, high, percent) == (high - price) * 1000 <= percent * high

\* tolerancePercent: number = 0.1, in tenths
DefaultTolerancePercent == 1

\* findStocksWithinThreshold: the price key of a row
withinPriceKey(row, pCol) ==
    FindKey(row, {i \in 1..Len(row) :
                    \/ row[i].k = pCol
                    \/ includes(toLowerCase(row[i].k), sPrice)})

\* findStocksWithinThreshold: the high key of a row
withinHighKey(row, hCol) ==
    FindKey(row, {i \in 1..Len(row) :
                    \/ row[i].k = hCol
                    \/ includes(toLowerCase(row[i].k), sHigh)
                    \/ includes(toLowerCase(row[i].k), sAllTime)})

\* parseFloat(String(row[key]).replace(/[^0-9.-]+/g, ''))
withinNumber(row, key) == parseFloat(StripNonNumeric(StringOf(Get(row, key))))

\* a strict bound in place of the inclusive one
withinCompareStrict(currentPrice, highPrice, percentThreshold) ==
    /\ ~isNaN(currentPrice)
    /\ ~isNaN(highPrice)
    /\ highPrice.v > 0
    /\ (highPrice.v - currentPrice.v) * 1000 < percentThreshold * highPrice.v

\* findStocksWithinThreshold: the comparison that ends the filter callback
withinCompare(currentPrice, highPrice, percentThreshold) ==
    /\ ~isNaN(currentPrice)
    /\ ~isNaN(highPrice)
    /\ highPrice.v > 0
    /\ RatioAtMost(currentPrice.v, highPrice.v, percentThreshold)

\* findStocksWithinThreshold: the filter callback
withinKeep(row, pCol, hCol, percentThreshold) ==
    LET priceKey == withinPriceKey(row, pCol)
        highKey  == withinHighKey(row, hCol)
    IN  IF KeyFalsy(priceKey) \/ KeyFalsy(highKey) THEN FALSE
        ELSE withinCompare(withinNumber(row, priceKey.key),
                           withinNumber(row, highKey.key), percentThreshold)

RECURSIVE Reverse(_)
Reverse(q) == IF Len(q) = 0 THEN <<>> ELSE Reverse(Tail(q)) \o <<Head(q)>>

\* the kept rows collected last first
findStocksWithinThresholdReversed(d, pCol, hCol, percentThreshold) ==
    Reverse(SelectSeq(d, LAMBDA row : withinKeep(row, pCol, hCol, percentThreshold)))

findStocksWithinThreshold(d, pCol, hCol, percentThreshold) ==
    IF Len(d) = 0 THEN <<>>
    ELSE SelectSeq(d, LAMBDA row : withinKeep(row, pCol, hCol, percentThreshold))

\* findStocksAtAllTimeHigh: the price key of a row
atHighPriceKey(row, pCol) ==
    KeyOr(pCol, FindKey(row, {i \in 1..Len(row) :
                    \/ includes(toLowerCase(row[i].k), sPrice)
                    \/ toLowerCase(row[i].k) = sPrice
                    \/ includes(toLowerCase(row[i].k), sCurrent)}))

\* findStocksAtAllTimeHigh: the high key of a row
atHighHighKey(row, hCol) ==
    KeyOr(hCol, FindKey(row, {i \in 1..Len(row) :
                    \/ includes(toLowerCase(row[i].k), sHighAllTime)
                    \/ includes(toLowerCase(row[i].k), sAllTimeHigh)
                    \/ includes(toLowerCase(row[i].k), sAth)}))

\* the tolerance test alone, without the price >= high clause
atHighCompareToleranceOnly(currentPrice, highPrice, tolerancePercent) ==
    /\ ~isNaN(currentPrice)
    /\ ~isNaN(highPrice)
    /\ highPrice.v > 0
    /\ RatioAtMost(currentPrice.v, highPrice.v, tolerancePercent)

\* findStocksAtAllTimeHigh: the comparison that ends the filter callback
atHighCompare(currentPrice, highPrice, tolerancePercent) ==
    /\ ~isNaN(currentPrice)
    /\ ~isNaN(highPrice)
    /\ highPrice.v > 0
    /\ \/ RatioAtMost(currentPrice.v, highPrice.v, tolerancePercent)
       \/ currentPrice.v >= highPrice.v

\* findStocksAtAllTimeHigh: the filter callback
atHighKeep(row, pCol, hCol, tolerancePercent) ==
    LET priceKey == atHighPriceKey(row, pCol)
        highKey  == atHighHighKey(row, hCol)
    IN  IF KeyFalsy(priceKey) \/ KeyFalsy(highKey) THEN FALSE
        ELSE atHighCompare(extractNumericPrice(Get(row, priceKey.key)),
                           extractNumericPrice(Get(row, highKey.key)),
                           tolerancePercent)

findStocksAtAllTimeHigh(d, pCol, hCol, tolerancePercent) ==
    IF Len(d) = 0 THEN <<>>
    ELSE SelectSeq(d, LAMBDA row : atHighKeep(row, pCol, hCol, tolerancePercent))

-----------------------------------------------------------------------------
(* Inputs of the screening specification                                   *)

sX == <<"X">>
sY == <<"Y">>
sZ == <<"Z">>

\* Scenario A/B: {Symbol:"X", Price:"$95", High All Time:"$100"}
RowA == <<Cell(kSymbol, Str(sX)), Cell(kPrice, Str(<<"$","9","5">>)),
          Cell(kHighAllTime, Str(<<"$","1","0","0">>))>>
\* Scenario C: {Price:110, High All Time:100}
RowC == <<Cell(kPrice, Num(1100)), Cell(kHighAllTime, Num(1000))>>
\* half way down from the high
RowFar == <<Cell(kSymbol, Str(sZ)), Cell(kPrice, Num(500)),
            Cell(kHighAllTime, Num(1000))>>
\* 0.1% below the high, in a text cell with a decimal point
RowNear == <<Cell(kSymbol, Str(sY)), Cell(kPrice, Str(<<"9","9",".","9">>)),
             Cell(kHighAllTime, Num(1000))>>
\* no price key at all
RowNoPrice == <<Cell(kSymbol, Str(sX)), Cell(kHighAllTime, Num(1000))>>
\* no high key at all
RowNoHigh == <<Cell(kSymbol, Str(sY)), Cell(kPrice, Num(950))>>
\* a null price cell
RowNullPrice == <<Cell(kPrice, Null), Cell(kHighAllTime, Num(1000))>>
\* a price cell with no digit in it
RowTextPrice == <<Cell(kPrice, Str(<<"n","/","a">>)), Cell(kHighAllTime, Num(1000))>>
\* a high of zero
RowZeroHigh == <<Cell(kPrice, Num(50)), Cell(kHighAllTime, Num(0))>>
\* a negative high, the price above it
RowNegHigh == <<Cell(kPrice, Num(-50)), Cell(kHighAllTime, Str(<<"-","1","0">>))>>
\* other header names: found by the heuristics, not by the names passed in
RowAlt == <<Cell(kCurrentPrice, Num(990)), Cell(kATH, Num(1000))>>

\* exactly at the high
RowAtHigh == <<Cell(kSymbol, Str(sZ)), Cell(kPrice, Num(1000)),
               Cell(kHighAllTime, Str(<<"1","0","0">>))>>

ScreenRows == {RowA, RowC, RowAtHigh, RowFar, RowNear, RowNoPrice, RowNoHigh, RowNullPrice,
               RowTextPrice, RowZeroHigh, RowNegHigh, RowAlt}

\* the longest dataset
MaxRows == 2

DataSets(pool, n) == UNION {[1..k -> pool] : k \in 0..n}

\* thresholds and tolerances, in tenths of a percent: -1, 0, 0.1, 4, 5, 20, 100
Percents == {-10, 0, 1, 40, 50, 200, 1000}

\* sortConfig = null
NoSort == [key |-> <<>>, direction |-> "none"]
\* filters = {}
NoFilters == [k \in {} |-> <<>>]
\* the record of the last operation: its name and its arguments
Op(name, key, value) == [name |-> name, key |-> key, value |-> value]

InitScreen ==
    /\ data \in DataSets(ScreenRows, MaxRows)
    /\ priceColumn \in {kPrice, <<>>}
    /\ highColumn \in {kHighAllTime, <<>>}
    /\ threshold = 0
    /\ result = <<>>
    /\ op = Op("init", <<>>, <<>>)
    /\ sortConfig = NoSort
    /\ filters = NoFilters
    /\ currentPage = 1
    /\ AppIdle

WithinThreshold ==
    /\ op.name = "init"
    /\ \E t \in Percents :
        /\ threshold' = t
        /\ result' = findStocksWithinThreshold(data, priceColumn, highColumn, t)
    /\ op' = Op("within", <<>>, <<>>)
    /\ UNCHANGED <<appVars, data, priceColumn, highColumn, sortConfig, filters, currentPage>>

AtAllTimeHigh ==
    /\ op.name = "init"
    /\ \E t \in Percents :
        /\ threshold' = t
        /\ result' = findStocksAtAllTimeHigh(data, priceColumn, highColumn, t)
    /\ op' = Op("atHigh", <<>>, <<>>)
    /\ UNCHANGED <<appVars, data, priceColumn, highColumn, sortConfig, filters, currentPage>>

\* the call without a tolerance: the default applies
AtAllTimeHighDefault ==
    /\ op.name = "init"
    /\ threshold' = DefaultTolerancePercent
    /\ result' = findStocksAtAllTimeHigh(data, priceColumn, highColumn,
                                         DefaultTolerancePercent)
    /\ op' = Op("atHighDefault", <<>>, <<>>)
    /\ UNCHANGED <<appVars, data, priceColumn, highColumn, sortConfig, filters, currentPage>>

NextScreen == WithinThreshold \/ AtAllTimeHigh \/ AtAllTimeHighDefault

SpecScreen == InitScreen /\ [][NextScreen]_vars

-----------------------------------------------------------------------------
(* Properties of the screening engine                                      *)

\* (high - price) / high <= percent / 100 as the double arithmetic decides it
\* for any finite high: a division by zero is -Infinity, NaN or +Infinity
QuotientAtMost(price, high, percent) ==
    IF high > 0 THEN (high - price) * 1000 <= percent * high
    ELSE IF high < 0 THEN (high - price) * 1000 >= percent * high
    ELSE price > 0

IsSubsequence(r, d) ==
    \E f \in [1..Len(r) -> 1..Len(d)] :
        /\ \A i \in 1..Len(r) : d[f[i]] = r[i]
        /\ \A i \in 1..Len(r) : \A j \in 1..Len(r) : i < j => f[i] < f[j]

Returned(row) == \E j \in 1..Len(result) : result[j] = row

AfterWithin == op.name = "within"
AfterAtHigh == op.name \in {"atHigh", "atHighDefault"}

\* the keep condition of the within-threshold screen, as the claim states it
C1_Keeps(row) ==
    LET pk == withinPriceKey(row, priceColumn)
        hk == withinHighKey(row, highColumn)
    IN  /\ ~KeyFalsy(pk) /\ ~KeyFalsy(hk)
        /\ LET price == withinNumber(row, pk.key)
               high  == withinNumber(row, hk.key)
           IN  /\ ~isNaN(price) /\ ~isNaN(high)
               /\ high.v > 0
               /\ (high.v - price.v) * 1000 <= threshold * high.v

\* the least percentage (in tenths) at which each row of the pool is within
\* the threshold of its high, worked out by hand; 100000 = never
C1_LeastPercent(row) ==
    CASE row = RowA      -> 50
      [] row = RowC      -> -100
      [] row = RowAtHigh -> 0
      [] row = RowFar    -> 500
      [] row = RowNear   -> 1
      [] OTHER           -> 100000

\* C1: findStocksWithinThreshold keeps a row if and only if its price and high
\* keys resolve, both cells coerce to valid numbers, high > 0 and
\* (high - price)/high <= T/100, the bound included: the row {Price:"$95",
\* High All Time:"$100"} is kept for T = 20 and T = 5 and dropped for T = 4.
C1_WithinThresholdIff ==
    AfterWithin =>
        /\ result = SelectSeq(data, C1_Keeps)
        /\ \A i \in 1..Len(data) :
             data[i] \in ScreenRows =>
                (Returned(data[i]) <=> threshold >= C1_LeastPercent(data[i]))
        /\ (data = <<RowA>> /\ threshold \in {200, 50}) => result = <<RowA>>
        /\ (data = <<RowA>> /\ threshold = 40) => result = <<>>

\* the boundary of Scenario B is reached: kept at exactly 5%
C1_Witness ==
    /\ AfterWithin /\ data = <<RowA>> /\ threshold = 50 /\ result = <<RowA>>

\* what each screen compares for a row it returned
C2_RowSatisfies(row) ==
    IF AfterWithin
    THEN LET price == withinNumber(row, withinPriceKey(row, priceColumn).key)
             high  == withinNumber(row, withinHighKey(row, highColumn).key)
         IN  \/ QuotientAtMost(price.v, high.v, threshold)
             \/ price.v >= high.v
    ELSE LET price == extractNumericPrice(
                          Get(row, atHighPriceKey(row, priceColumn).key))
             high  == extractNumericPrice(
                          Get(row, atHighHighKey(row, highColumn).key))
         IN  \/ QuotientAtMost(price.v, high.v, threshold)
             \/ price.v >= high.v

\* C2: the result of either screen is a subsequence of the input (input rows
\* only, each at most once, in their original relative order), and every
\* returned row satisfies (high - price)/high <= threshold/100 or price >= high.
C2_ScreenIsSubsequence ==
    (AfterWithin \/ AfterAtHigh) =>
        /\ IsSubsequence(result, data)
        /\ \A j \in 1..Len(result) : C2_RowSatisfies(result[j])

\* two different rows are returned, and a row between or beside them is dropped
C2_Witness ==
    /\ AfterWithin /\ data = <<RowC, RowA>> /\ threshold = 200
    /\ result = <<RowC, RowA>>

C2_WitnessDropped ==
    /\ AfterAtHigh /\ Len(data) = 2 /\ Len(result) = 1 /\ result[1] = data[2]

\* the effective keys and numbers of the at-high screen
C3_Resolves(row) ==
    /\ ~KeyFalsy(atHighPriceKey(row, priceColumn))
    /\ ~KeyFalsy(atHighHighKey(row, highColumn))
C3_Price(row) == extractNumericPrice(Get(row, atHighPriceKey(row, priceColumn).key))
C3_High(row)  == extractNumericPrice(Get(row, atHighHighKey(row, highColumn).key))
C3_Valid(row) == C3_Resolves(row) /\ ~isNaN(C3_Price(row)) /\ ~isNaN(C3_High(row))

C4_PriceUnresolved(row) ==
    ~\E i \in 1..Len(row) :
        \/ row[i].k = priceColumn /\ row[i].k # <<>>
        \/ includes(toLowerCase(row[i].k), sPrice)
        \/ includes(toLowerCase(row[i].k), sCurrent)
C4_HighUnresolved(row) ==
    ~\E i \in 1..Len(row) :
        \/ row[i].k = highColumn /\ row[i].k # <<>>
        \/ includes(toLowerCase(row[i].k), sHigh)
        \/ includes(toLowerCase(row[i].k), sAllTime)
        \/ includes(toLowerCase(row[i].k), sAth)
\* a cell that is there and holds text without any digit
C4_NonNumericCell(row) ==
    \E i \in 1..Len(row) :
        /\ row[i].k \in {kPrice, kHighAllTime, kCurrentPrice, kATH}
        /\ row[i].v.t = "string"
        /\ isNaN(parseFloat(StripNonNumeric(row[i].v.s)))

\* C4: in both screens a row whose price or high column cannot be resolved
\* among the row's own keys, or whose price or high cell is non-numeric, is
\* excluded, also when a non-empty column name is passed that the row does not
\* have, for any threshold or tolerance.
C4_UnresolvedExcluded ==
    (AfterWithin \/ AfterAtHigh) =>
        \A i \in 1..Len(data) :
            (\/ C4_PriceUnresolved(data[i])
             \/ C4_HighUnresolved(data[i])
             \/ C4_NonNumericCell(data[i])) => ~Returned(data[i])

-----------------------------------------------------------------------------
(* Array.prototype.sort                                                    *)
(*                                                                         *)
(* The engine's sort of an array shorter than 64 elements: the first run   *)
(* is found (and reversed when strictly descending), then every other      *)
(* element is placed by binary insertion.  The comparator is given as a    *)
(* function c[i, j] over the positions of the input, its result read by    *)
(* its sign (a NaN result counts as 0); the array holds input positions.   *)

\* CountAndMakeRun: is index idx (from 3) still part of the first run
RunContinues(c, arr, idx, descending) ==
    IF descending THEN c[arr[idx], arr[idx - 1]] < 0
    ELSE c[arr[idx], arr[idx - 1]] >= 0

\* CountAndMakeRun: the length of the first run
RunLength(c, arr) ==
    LET n == Len(arr)
        descending == c[arr[2], arr[1]] < 0
    IN  CHOOSE r \in 2..n :
            /\ \A i \in 3..r : RunContinues(c, arr, i, descending)
            /\ r = n \/ ~RunContinues(c, arr, r + 1, descending)

\* CountAndMakeRun: a strictly descending run is reversed in place
MakeRun(c, arr) ==
    LET r == RunLength(c, arr)
    IN  IF c[arr[2], arr[1]] < 0
        THEN [i \in 1..Len(arr) |-> IF i <= r THEN arr[r + 1 - i] ELSE arr[i]]
        ELSE arr

\* BinaryInsertionSort: where the pivot goes among arr[1..right] (0-based
\* bounds left, right as in the engine)
RECURSIVE BinarySearch(_, _, _, _, _)
BinarySearch(c, arr, pivot, left, right) ==
    IF left < right
    THEN LET mid == left + ((right - left) \div 2)
         IN  IF c[pivot, arr[mid + 1]] < 0
             THEN BinarySearch(c, arr, pivot, left, mid)
             ELSE BinarySearch(c, arr, pivot, mid + 1, right)
    ELSE left

\* BinaryInsertionSort: elements start+1 .. n (1-based) are inserted in turn
RECURSIVE BinaryInsertionSort(_, _, _)
BinaryInsertionSort(c, arr, start) ==
    IF start > Len(arr) THEN arr
    ELSE LET pivot == arr[start]
             left  == BinarySearch(c, arr, pivot, 0, start - 1)
             moved == SubSeq(arr, 1, left) \o <<pivot>>
                      \o SubSeq(arr, left + 1, start - 1)
                      \o SubSeq(arr, start + 1, Len(arr))
         IN  BinaryInsertionSort(c, moved, start + 1)

\* the permutation Array.prototype.sort produces: position i of the output
\* holds input element ArraySort(n, c)[i]
ArraySort(n, c) ==
    LET arr == [i \in 1..n |-> i]
    IN  IF n < 2 THEN arr
        ELSE BinaryInsertionSort(c, MakeRun(c, arr), RunLength(c, arr) + 1)

Sign(x) == IF x < 0 THEN -1 ELSE IF x > 0 THEN 1 ELSE 0

Minimum(a, b) == IF a <= b THEN a ELSE b
Maximum(a, b) == IF a >= b THEN a ELSE b

-----------------------------------------------------------------------------
(* DataTable and Pagination                                                *)

\* rowsPerPage of the table instance
RowsPerPage == 1

\* a comparator that compares every pair of cells as text
tableCompareText(a, b, cfg) ==
    LET aString == toLowerCase(IF Falsy(Get(a, cfg.key)) THEN <<>> ELSE StringOf(Get(a, cfg.key)))
        bString == toLowerCase(IF Falsy(Get(b, cfg.key)) THEN <<>> ELSE StringOf(Get(b, cfg.key)))
    IN  IF StringLess(aString, bString)
        THEN IF cfg.direction = "ascending" THEN -1 ELSE 1
        ELSE IF StringLess(bString, aString)
        THEN IF cfg.direction = "ascending" THEN 1 ELSE -1
        ELSE 0

\* the comparator of sortedData
tableCompare(a, b, cfg) ==
    LET aValue == Get(a, cfg.key)
        bValue == Get(b, cfg.key)
    IN  IF aValue.t = "number" /\ bValue.t = "number"
        THEN IF cfg.direction = "ascending" THEN Sign(aValue.n - bValue.n)
             ELSE Sign(bValue.n - aValue.n)
        ELSE LET aString == toLowerCase(IF Falsy(aValue) THEN <<>> ELSE StringOf(aValue))
                 bString == toLowerCase(IF Falsy(bValue) THEN <<>> ELSE StringOf(bValue))
             IN  IF StringLess(aString, bString)
                 THEN IF cfg.direction = "ascending" THEN -1 ELSE 1
                 ELSE IF StringLess(bString, aString)
                 THEN IF cfg.direction = "ascending" THEN 1 ELSE -1
                 ELSE 0

\* sortedData
sortedDataOf(d, cfg) ==
    IF cfg = NoSort THEN d
    ELSE LET c == [i \in 1..Len(d), j \in 1..Len(d) |-> tableCompare(d[i], d[j], cfg)]
             perm == ArraySort(Len(d), c)
         IN  [i \in 1..Len(d) |-> d[perm[i]]]

\* the cell compared as written, not lower-cased
filterCellMatchesCaseSensitive(cellValue, filterValue) ==
    /\ cellValue.t # "undefined"
    /\ cellValue.t # "null"
    /\ includes(StringOf(cellValue), filterValue)

\* the test of one cell against the lower-cased pattern
filterCellMatches(cellValue, filterValue) ==
    /\ cellValue.t # "undefined"
    /\ cellValue.t # "null"
    /\ includes(toLowerCase(StringOf(cellValue)), filterValue)

\* filteredData: the callback of sortedData.filter
rowPassesFilters(row, flt) ==
    \A key \in DOMAIN flt :
        LET filterValue == toLowerCase(flt[key])
        IN  IF filterValue = <<>> THEN TRUE
            ELSE filterCellMatches(Get(row, key), filterValue)

\* filteredData
filteredDataOf(d, cfg, flt) ==
    SelectSeq(sortedDataOf(d, cfg), LAMBDA row : rowPassesFilters(row, flt))

\* Array.prototype.slice(start, end) for 0 <= start
Slice(q, start, end) == SubSeq(q, start + 1, Minimum(end, Len(q)))

\* the page window taken from the sorted rows, before the filter
paginatedDataOfUnfiltered(d, cfg, flt, page) ==
    LET startIndex == (page - 1) * RowsPerPage
    IN  SelectSeq(Slice(sortedDataOf(d, cfg), startIndex, startIndex + RowsPerPage),
                  LAMBDA row : rowPassesFilters(row, flt))

\* paginatedData
paginatedDataOf(d, cfg, flt, page) ==
    LET startIndex == (page - 1) * RowsPerPage
    IN  Slice(filteredDataOf(d, cfg, flt), startIndex, startIndex + RowsPerPage)

sortedData    == sortedDataOf(data, sortConfig)
filteredData  == filteredDataOf(data, sortConfig, filters)
paginatedData == paginatedDataOf(data, sortConfig, filters, currentPage)

\* Pagination: Math.ceil(totalItems / itemsPerPage)
totalPagesOf(totalItems) == (totalItems + RowsPerPage - 1) \div RowsPerPage
totalPages == totalPagesOf(Len(filteredData))

\* the table rendered only while some row passes the filters
TableRenderedWhenRowsMatch == Len(filteredData) # 0

\* the table is rendered (with its headers, filter inputs and pager) only
\* when data is not empty
TableRendered == Len(data) # 0
\* the headers handed to the table: the keys of the first row
tableHeaders == IF Len(data) = 0 THEN {} ELSE {data[1][i].k : i \in 1..Len(data[1])}

\* the direction flipped on every click of the same header
sortAfterRequestToggle(cfg, key) ==
    IF cfg # NoSort /\ cfg.key = key /\ cfg.direction = "ascending"
    THEN [key |-> key, direction |-> "descending"]
    ELSE IF cfg # NoSort /\ cfg.key = key
    THEN [key |-> key, direction |-> "ascending"]
    ELSE [key |-> key, direction |-> cfg.direction]

\* a sort request that clears the sort on the click after descending
sortAfterRequestCycle(cfg, key) ==
    IF cfg # NoSort /\ cfg.key = key /\ cfg.direction = "ascending"
    THEN [key |-> key, direction |-> "descending"]
    ELSE IF cfg # NoSort /\ cfg.key = key
    THEN NoSort
    ELSE [key |-> key, direction |-> "ascending"]

\* requestSort: the new sort configuration
sortAfterRequest(cfg, key) ==
    IF cfg # NoSort /\ cfg.key = key /\ cfg.direction = "ascending"
    THEN [key |-> key, direction |-> "descending"]
    ELSE [key |-> key, direction |-> "ascending"]

\* the new pattern alone, the other keys' patterns lost
filtersAfterChangeOnlyKey(prev, key, value) == [k \in {key} |-> value]

\* handleFilterChange: {...prev, [key]: value}
filtersAfterChange(prev, key, value) ==
    [k \in DOMAIN prev \cup {key} |-> IF k = key THEN value ELSE prev[k]]

\* a Next button that is never disabled
nextDisabledNever(page, total) == FALSE

\* Pagination: the disabled attribute of the two buttons
previousDisabled(page) == page = 1
nextDisabled(page, total) == page >= total

requestSort(key) ==
    /\ TableRendered
    /\ sortConfig' = sortAfterRequest(sortConfig, key)
    /\ UNCHANGED <<appVars, data, priceColumn, highColumn, threshold, result, op,
                   filters, currentPage>>

handleFilterChange(key, value) ==
    /\ TableRendered
    /\ filters' = filtersAfterChange(filters, key, value)
    /\ currentPage' = 1
    /\ UNCHANGED <<appVars, data, priceColumn, highColumn, threshold, result, op,
                   sortConfig>>

PreviousPage ==
    /\ TableRendered
    /\ ~previousDisabled(currentPage)
    /\ currentPage' = Maximum(currentPage - 1, 1)
    /\ UNCHANGED <<appVars, data, priceColumn, highColumn, threshold, result, op,
                   sortConfig, filters>>

NextPage ==
    /\ TableRendered
    /\ LET total == totalPages
       IN  /\ ~nextDisabled(currentPage, total)
           /\ currentPage' = Minimum(currentPage + 1, total)
    /\ UNCHANGED <<appVars, data, priceColumn, highColumn, threshold, result, op,
                   sortConfig, filters>>

-----------------------------------------------------------------------------
(* Inputs of the table specification                                       *)

sTech      == <<"T","e","c","h">>
sTechLower == <<"t","e","c","h">>
sBank      == <<"B","a","n","k">>

TableRow1 == <<Cell(kSector, Str(sTech)), Cell(kPrice, Num(100))>>
TableRow2 == <<Cell(kSector, Str(sTechLower)), Cell(kPrice, Num(90))>>
TableRow3 == <<Cell(kSector, Str(sBank)), Cell(kPrice, Null)>>
\* a row without the Sector key
TableRow4 == <<Cell(kPrice, Num(20))>>

TableRows == {TableRow1, TableRow2, TableRow3, TableRow4}

\* the longest row set of a table
MaxTableRows == 3

\* what is typed into a filter input: nothing, "TE", "1"
Patterns == {<<>>, <<"T","E">>, <<"1">>}

InitTable ==
    /\ data \in DataSets(TableRows, MaxTableRows)
    /\ priceColumn = <<>>
    /\ highColumn = <<>>
    /\ threshold = 0
    /\ result = <<>>
    /\ op = Op("init", <<>>, <<>>)
    /\ sortConfig = NoSort
    /\ filters = NoFilters
    /\ currentPage = 1
    /\ AppIdle

NextTable ==
    \/ \E key \in tableHeaders : requestSort(key)
    \/ \E key \in tableHeaders : \E value \in Patterns : handleFilterChange(key, value)
    \/ PreviousPage
    \/ NextPage

SpecTable == InitTable /\ [][NextTable]_vars

-----------------------------------------------------------------------------
(* Properties of the table                                                 *)

HasPattern == \E k \in DOMAIN filters : filters[k] # <<>>

\* C5: no sequence of Previous/Next requests, from any filter state, sets
\* currentPage to 0 or beyond the last page: currentPage stays within
\* [1, max(1, ceil(filteredCount / rowsPerPage))], also when the filter
\* matches no row, and the page shown is empty only when no row passes.
C5_PageInRange ==
    TableRendered =>
        LET filteredCount == Len(filteredData)
        IN  /\ currentPage >= 1
            /\ currentPage <= Maximum(1, (filteredCount + RowsPerPage - 1) \div RowsPerPage)
            /\ filteredCount > 0 => (currentPage - 1) * RowsPerPage < filteredCount

\* Next has been pressed under a filter and the last page is shown
C5_Witness ==
    /\ HasPattern /\ sortConfig # NoSort
    /\ currentPage = 2 /\ totalPages = 2

\* a filter that matches no row: zero pages, and the page is still 1
C5_WitnessNoRows ==
    /\ TableRendered /\ HasPattern /\ Len(filteredData) = 0 /\ currentPage = 1

\* C6: setFilter(key, pattern) stores pattern under key, replacing an earlier
\* pattern of that key and leaving the patterns of all other keys unchanged,
\* and sets currentPage to 1, for every prior state and every pattern, the
\* empty one included; SortConfig is unchanged.
C6_SetFilterEffect ==
    [][\A key \in tableHeaders : \A pattern \in Patterns :
          handleFilterChange(key, pattern) =>
              /\ DOMAIN filters' = DOMAIN filters \cup {key}
              /\ filters'[key] = pattern
              /\ \A k \in DOMAIN filters \ {key} : filters'[k] = filters[k]
              /\ currentPage' = 1
              /\ sortConfig' = sortConfig]_vars

\* an empty pattern has been stored while another key keeps its pattern and a
\* sort is active
C6_Witness ==
    /\ \E key \in DOMAIN filters : \E k \in DOMAIN filters :
          filters[key] = <<>> /\ k # key /\ filters[k] # <<>>
    /\ sortConfig # NoSort
    /\ currentPage = 1

\* C7: requestSort(key) gives {key, descending} when the current SortConfig
\* has the same key and direction ascending, and {key, ascending} in every
\* other case (no sort yet, another key, or the same key already
\* descending); one sort key is active at a time.
C7_RequestSortEffect ==
    [][\A key \in tableHeaders :
          requestSort(key) =>
              sortConfig' =
                  IF sortConfig.key = key /\ sortConfig.direction = "ascending"
                  THEN [key |-> key, direction |-> "descending"]
                  ELSE [key |-> key, direction |-> "ascending"]]_vars

\* the same header has been clicked twice: the direction is descending
C7_Witness ==
    /\ sortConfig # NoSort
    /\ sortConfig.direction = "descending"

\* p orders the rows by the current SortConfig, equal rows in input order
C8_SortsData(p) ==
    /\ \A i \in 1..Len(data) : \A j \in 1..Len(data) : i < j => p[i] # p[j]
    /\ IF sortConfig = NoSort THEN \A i \in 1..Len(data) : p[i] = i
       ELSE \A i \in 1..Len(data) : \A j \in 1..Len(data) :
               i < j =>
                  LET c == tableCompare(data[p[i]], data[p[j]], sortConfig)
                  IN  c < 0 \/ (c = 0 /\ p[i] < p[j])

\* the rows at positions [(page-1)*rowsPerPage, page*rowsPerPage) of q
C8_Window(q) ==
    LET first == (currentPage - 1) * RowsPerPage
        count == Maximum(0, Minimum(RowsPerPage, Len(q) - first))
    IN  [i \in 1..count |-> q[first + i]]

\* C8: after every sequence of requestSort, setFilter and page changes, the
\* rows shown are exactly positions [(currentPage-1)*rowsPerPage,
\* currentPage*rowsPerPage) of the sequence obtained by first sorting the full
\* row set by the current SortConfig (insertion order when absent) and then
\* filtering that sorted sequence by the current FilterConfig.
C8_RowsShown ==
    \E p \in [1..Len(data) -> 1..Len(data)] :
        /\ C8_SortsData(p)
        /\ LET sorted == [i \in 1..Len(data) |-> data[p[i]]]
               passing == SelectSeq(sorted, LAMBDA row : rowPassesFilters(row, filters))
           IN  paginatedData = C8_Window(passing)

\* a sort and a filter are active and the second page shows a row
C8_Witness ==
    /\ sortConfig # NoSort /\ HasPattern
    /\ currentPage = 2
    /\ Len(paginatedData) > 0
    /\ Len(filteredData) < Len(data)
    /\ sortedData # data

\* two characters are the same letter, whatever their case
C9_SameLetter(a, b) ==
    \/ a = b
    \/ \E k \in 1..26 : {a, b} = {UpperChars[k], LowerChars[k]}

\* s contains pattern, case-insensitively
C9_Contains(s, pattern) ==
    \E i \in 0..(Len(s) - Len(pattern)) :
        \A j \in 1..Len(pattern) : C9_SameLetter(s[i + j], pattern[j])

C9_Passes(row) ==
    \A key \in DOMAIN filters :
        filters[key] # <<>> =>
            /\ HasKey(row, key)
            /\ Get(row, key).t # "null"
            /\ C9_Contains(StringOf(Get(row, key)), filters[key])

\* C9: a row passes the table filter if and only if, for every key whose
\* pattern is non-empty, the row has a non-null value for that key whose
\* string form contains the pattern case-insensitively; keys with empty or
\* absent patterns impose no constraint, a row missing a constrained key
\* fails, and the constraints are AND-combined.
C9_FilterIff ==
    filteredData = SelectSeq(sortedData, C9_Passes)

\* two keys are constrained; a row passes, a row without the key fails, and a
\* row matches only because case is ignored
C9_Witness ==
    /\ \E k1 \in DOMAIN filters : \E k2 \in DOMAIN filters :
          k1 # k2 /\ filters[k1] # <<>> /\ filters[k2] # <<>>
    /\ \E i \in 1..Len(data) : \E k \in DOMAIN filters :
          filters[k] # <<>> /\ ~HasKey(data[i], k)
    /\ LET passing == filteredData
       IN  \E i \in 1..Len(passing) : \E k \in DOMAIN filters :
              /\ filters[k] # <<>>
              /\ ~includes(StringOf(Get(passing[i], k)), filters[k])

-----------------------------------------------------------------------------
(* Ranking: sortStocksByProximityToATH                                     *)

\* a percentage kept as the fraction num / den * 100, den > 0, or NaN
Percent(num, den) == [nan |-> FALSE, num |-> num, den |-> den]
PercentNaN        == [nan |-> TRUE,  num |-> 0,   den |-> 1]

\* calculatePercentFromHigh: high > 0 ? ((high - price) / high) * 100 : 0
calculatePercentFromHigh(price, high) ==
    IF ~isNaN(high) /\ high.v > 0
    THEN IF isNaN(price) THEN PercentNaN ELSE Percent(high.v - price.v, high.v)
    ELSE Percent(0, 1)

\* x - y of two percentages, read by its sign; NaN when either is NaN
PercentDifference(x, y) ==
    IF x.nan \/ y.nan THEN NaN
    ELSE Finite(Sign(x.num * y.den - y.num * x.den))

\* the price key and the high key, looked up in the left operand
rankPriceKey(a, pCol) ==
    KeyOr(pCol, FindKey(a, {i \in 1..Len(a) :
                    \/ includes(toLowerCase(a[i].k), sPrice)
                    \/ toLowerCase(a[i].k) = sPrice}))

rankHighKey(a, hCol) ==
    KeyOr(hCol, FindKey(a, {i \in 1..Len(a) :
                    \/ includes(toLowerCase(a[i].k), sHighAllTime)
                    \/ includes(toLowerCase(a[i].k), sAllTimeHigh)
                    \/ includes(toLowerCase(a[i].k), sAth)}))

\* the comparator handed to sort
rankCompare(a, b, pCol, hCol) ==
    LET priceKey == rankPriceKey(a, pCol)
        highKey  == rankHighKey(a, hCol)
    IN  IF KeyFalsy(priceKey) \/ KeyFalsy(highKey) THEN Finite(0)
        ELSE LET aPricePercent == calculatePercentFromHigh(
                                      extractNumericPrice(Get(a, priceKey.key)),
                                      extractNumericPrice(Get(a, highKey.key)))
                 bPricePercent == calculatePercentFromHigh(
                                      extractNumericPrice(Get(b, priceKey.key)),
                                      extractNumericPrice(Get(b, highKey.key)))
             IN  PercentDifference(aPricePercent, bPricePercent)

\* how sort reads a comparator's result: NaN counts as 0
SortOrder(v) == IF isNaN(v) THEN 0 ELSE v.v

sortStocksByProximityToATH(d, pCol, hCol) ==
    IF Len(d) = 0 THEN <<>>
    ELSE LET c == [i \in 1..Len(d), j \in 1..Len(d) |->
                      SortOrder(rankCompare(d[i], d[j], pCol, hCol))]
             perm == ArraySort(Len(d), c)
         IN  [i \in 1..Len(d) |-> d[perm[i]]]

-----------------------------------------------------------------------------
(* Inputs of the ranking specification                                     *)

\* 5% below the high, as RowA is, in number cells
RowTie == <<Cell(kSymbol, Str(sY)), Cell(kPrice, Num(950)),
            Cell(kHighAllTime, Num(1000))>>

\* 5% (text cells), 5% (number cells), 50%, a price with no digit, 0.1%
RankRows == {RowA, RowTie, RowFar, RowTextPrice, RowNear}

\* the longest dataset handed to the ranking
MaxRankRows == 7

InitRank ==
    /\ data \in DataSets(RankRows, MaxRankRows)
    /\ priceColumn = kPrice
    /\ highColumn = kHighAllTime
    /\ threshold = 0
    /\ result = <<>>
    /\ op = Op("init", <<>>, <<>>)
    /\ sortConfig = NoSort
    /\ filters = NoFilters
    /\ currentPage = 1
    /\ AppIdle

SortByProximity ==
    /\ op.name = "init"
    /\ result' = sortStocksByProximityToATH(data, priceColumn, highColumn)
    /\ op' = Op("rank", <<>>, <<>>)
    /\ UNCHANGED <<appVars, data, priceColumn, highColumn, threshold, sortConfig, filters,
                   currentPage>>

NextRank == SortByProximity

SpecRank == InitRank /\ [][NextRank]_vars

-----------------------------------------------------------------------------
(* Properties of the ranking                                               *)

AfterRank == op.name = "rank"

\* how often row occurs in q
C10_Count(q, row) == Cardinality({i \in 1..Len(q) : q[i] = row})

\* the proximity value of a row, from its own price and high
C10_Proximity(row) ==
    LET priceKey == rankPriceKey(row, priceColumn)
        highKey  == rankHighKey(row, highColumn)
    IN  IF KeyFalsy(priceKey) \/ KeyFalsy(highKey) THEN Percent(0, 1)
        ELSE calculatePercentFromHigh(extractNumericPrice(Get(row, priceKey.key)),
                                      extractNumericPrice(Get(row, highKey.key)))

C10_EqualProximity(r1, r2) ==
    LET x == C10_Proximity(r1)
        y == C10_Proximity(r2)
    IN  ~x.nan /\ ~y.nan /\ x.num * y.den = y.num * x.den

C10_IsPermutation ==
    /\ Len(result) = Len(data)
    /\ \A row \in RankRows : C10_Count(result, row) = C10_Count(data, row)

C10_IsStable ==
    \A r1 \in RankRows : \A r2 \in RankRows :
        C10_EqualProximity(r1, r2) =>
            SelectSeq(result, LAMBDA row : row \in {r1, r2})
                = SelectSeq(data, LAMBDA row : row \in {r1, r2})

\* C10: sortStocksByProximityToATH returns a permutation of its input (the
\* same multiset of rows, whatever the rows) and is stable: two rows with
\* equal proximity value appear in the output in their input order.
C10_PermutationAndStable == AfterRank => C10_IsPermutation /\ C10_IsStable

-----------------------------------------------------------------------------
(* Ranking of rows whose cells are all numbers                             *)

\* rows whose price and high cells all coerce to numbers: 5%, 50%, 0.1%,
\* 10% above the high, a negative high, a high of zero, other header names
NumericRows == {RowA, RowFar, RowNear, RowC, RowNegHigh, RowZeroHigh, RowAlt}

\* the longest dataset of numeric rows
MaxNumericRows == 3

InitRankNumeric ==
    /\ data \in DataSets(NumericRows, MaxNumericRows)
    /\ \E named \in BOOLEAN :
          /\ priceColumn = (IF named THEN kPrice ELSE <<>>)
          /\ highColumn = (IF named THEN kHighAllTime ELSE <<>>)
    /\ threshold = 0
    /\ result = <<>>
    /\ op = Op("init", <<>>, <<>>)
    /\ sortConfig = NoSort
    /\ filters = NoFilters
    /\ currentPage = 1
    /\ AppIdle

SpecRankNumeric == InitRankNumeric /\ [][NextRank]_vars

\* the row's own price and high cells, its keys resolved as the at-high
\* screen resolves them
C11_Price(row) == extractNumericPrice(Get(row, atHighPriceKey(row, priceColumn).key))
C11_High(row)  == extractNumericPrice(Get(row, atHighHighKey(row, highColumn).key))

\* both keys resolve to keys of the row and both cells are numbers
C11_Numeric(row) ==
    /\ ~KeyFalsy(atHighPriceKey(row, priceColumn))
    /\ ~KeyFalsy(atHighHighKey(row, highColumn))
    /\ HasKey(row, atHighPriceKey(row, priceColumn).key)
    /\ HasKey(row, atHighHighKey(row, highColumn).key)
    /\ ~isNaN(C11_Price(row))
    /\ ~isNaN(C11_High(row))
    /\ C11_High(row).v # 0

\* (high - price) / high of r1 is at most that of r2
C11_AtMost(r1, r2) ==
    LET n1 == C11_High(r1).v - C11_Price(r1).v
        d1 == C11_High(r1).v
        n2 == C11_High(r2).v - C11_Price(r2).v
        d2 == C11_High(r2).v
        s  == Sign(d1) * Sign(d2)
    IN  s * n1 * d2 <= s * n2 * d1

C11_Ordered ==
    \A i \in 1..(Len(result) - 1) : C11_AtMost(result[i], result[i + 1])

\* C11: for every input whose rows all have resolvable price and high keys
\* with numeric values, the output of sortStocksByProximityToATH is ordered
\* ascending by (high - price) / high * 100: of every two adjacent output
\* rows the earlier one's proximity is at most the later one's.
C11_AscendingByProximity ==
    (AfterRank /\ \A i \in 1..Len(data) : C11_Numeric(data[i])) => C11_Ordered

\* every high positive and one pair of keys for all rows
C11_UniformPositive ==
    /\ \A i \in 1..Len(data) :
          /\ C11_Numeric(data[i])
          /\ C11_High(data[i]).v > 0
          /\ rankPriceKey(data[i], priceColumn) = rankPriceKey(data[1], priceColumn)
          /\ rankHighKey(data[i], highColumn) = rankHighKey(data[1], highColumn)

\* the order holds when every high is positive and the rows share their keys
C11_AscendingWhenUniform ==
    (AfterRank /\ C11_UniformPositive) => C11_Ordered

\* every high positive, the rows' keys left as they are: fails for rows with
\* different header names
C11_PositiveOnly ==
    (AfterRank /\ \A i \in 1..Len(data) :
                     C11_Numeric(data[i]) /\ C11_High(data[i]).v > 0) => C11_Ordered

-----------------------------------------------------------------------------
(* Categorization by market capitalization                                 *)

kMarketCap == <<"M","a","r","k","e","t"," ","c","a","p","i","t","a","l","i","z","a","t","i","o","n">>
kDescription == <<"D","e","s","c","r","i","p","t","i","o","n">>
kMarketCapCurrency == kMarketCap \o <<" ","-"," ","C","u","r","r","e","n","c","y">>

\* MarketCapCategory
LARGE_CAP == "Large Cap"
MID_CAP   == "Mid Cap"
SMALL_CAP == "Small Cap"
MICRO_CAP == "Micro Cap"
UNKNOWN   == "Unknown"

\* a number cell whose value is a positive integer beyond the integers of the
\* model, given by its decimal digits
BigNum(ds) == [t |-> "bignumber", n |-> 0, s |-> ds]

\* the result of Number(value): NaN, or a sign and the decimal digits of the
\* integer part (without leading zeros, "0" for none); the fraction plays no
\* part in a comparison with an integer threshold
CapNaN == [nan |-> TRUE, neg |-> FALSE, int |-> <<"0">>]
CapNumber(neg, int) == [nan |-> FALSE, neg |-> neg, int |-> int]

\* digits without their leading zeros
RECURSIVE StripLeadingZeros(_)
StripLeadingZeros(ds) ==
    IF Len(ds) = 0 THEN <<"0">>
    ELSE IF ds[1] = "0" /\ Len(ds) > 1 THEN StripLeadingZeros(Tail(ds))
    ELSE ds

\* String.prototype.trim, for blanks
RECURSIVE TrimBlanks(_)
TrimBlanks(s) ==
    IF Len(s) > 0 /\ s[1] = " " THEN TrimBlanks(Tail(s))
    ELSE IF Len(s) > 0 /\ s[Len(s)] = " " THEN TrimBlanks(SubSeq(s, 1, Len(s) - 1))
    ELSE s

\* Number(string) for decimal literals: blanks trimmed, the empty string is 0,
\* then an optional sign, digits, an optional point and digits, and nothing
\* else; any other text is NaN
StringToNumber(str) ==
    LET s     == TrimBlanks(str)
        neg   == Len(s) > 0 /\ s[1] = "-"
        body  == IF Len(s) > 0 /\ s[1] \in {"-", "+"} THEN Tail(s) ELSE s
        nInt  == DigitRun(body)
        rest  == SubSeq(body, nInt + 1, Len(body))
        point == Len(rest) > 0 /\ rest[1] = "."
        fracS == IF point THEN Tail(rest) ELSE <<>>
    IN  IF Len(s) = 0 THEN CapNumber(FALSE, <<"0">>)
        ELSE IF nInt + Len(fracS) = 0 THEN CapNaN
        ELSE IF Len(rest) > 0 /\ ~point THEN CapNaN
        ELSE IF DigitRun(fracS) # Len(fracS) THEN CapNaN
        ELSE CapNumber(neg, StripLeadingZeros(SubSeq(body, 1, nInt)))

\* Number(value)
NumberOf(value) ==
    CASE value.t = "number"    -> CapNumber(value.n < 0,
                                            NatToString((IF value.n < 0 THEN -value.n
                                                         ELSE value.n) \div 10))
      [] value.t = "bignumber" -> CapNumber(FALSE, value.s)
      [] value.t = "string"    -> StringToNumber(value.s)
      [] value.t = "boolean"   -> CapNumber(FALSE, IF value.n = 1 THEN <<"1">> ELSE <<"0">>)
      [] value.t = "null"      -> CapNumber(FALSE, <<"0">>)
      [] value.t = "undefined" -> CapNaN

\* !value
Not(value) == IF value.t = "bignumber" THEN FALSE ELSE Falsy(value)

\* a >= b for the digits of two natural numbers
DigitsAtLeast(a, b) ==
    \/ Len(a) > Len(b)
    \/ /\ Len(a) = Len(b)
       /\ \A i \in 1..Len(a) :
             (\A j \in 1..(i - 1) : a[j] = b[j]) => DigitValue(a[i]) >= DigitValue(b[i])

\* value >= threshold, the threshold a positive integer
AtLeast(value, thresholdDigits) ==
    ~value.neg /\ DigitsAtLeast(value.int, thresholdDigits)

\* 200000000000, 50000000000, 5000000000
LARGE_CAP_THRESHOLD == <<"2","0","0","0","0","0","0","0","0","0","0","0">>
MID_CAP_THRESHOLD   == <<"5","0","0","0","0","0","0","0","0","0","0">>
SMALL_CAP_THRESHOLD == <<"5","0","0","0","0","0","0","0","0","0">>

\* getCategoryForStock, from the cell and from Number(cell)
categoryOfMarketCap(marketCap, marketCapValue) ==
    IF Not(marketCap) \/ marketCap = Str(<<>>) \/ marketCapValue.nan
    THEN UNKNOWN
    ELSE IF AtLeast(marketCapValue, LARGE_CAP_THRESHOLD) THEN LARGE_CAP
    ELSE IF AtLeast(marketCapValue, MID_CAP_THRESHOLD) THEN MID_CAP
    ELSE IF AtLeast(marketCapValue, SMALL_CAP_THRESHOLD) THEN SMALL_CAP
    ELSE MICRO_CAP

getCategoryForStock(stock) ==
    categoryOfMarketCap(Get(stock, kMarketCap), NumberOf(Get(stock, kMarketCap)))

\* the thresholds taken as exclusive lower bounds
exclusiveCategoryOfMarketCap(marketCap, marketCapValue) ==
    IF Not(marketCap) \/ marketCap = Str(<<>>) \/ marketCapValue.nan
    THEN UNKNOWN
    ELSE IF AtLeast(marketCapValue, LARGE_CAP_THRESHOLD)
            /\ marketCapValue.int # LARGE_CAP_THRESHOLD THEN LARGE_CAP
    ELSE IF AtLeast(marketCapValue, MID_CAP_THRESHOLD)
            /\ marketCapValue.int # MID_CAP_THRESHOLD THEN MID_CAP
    ELSE IF AtLeast(marketCapValue, SMALL_CAP_THRESHOLD)
            /\ marketCapValue.int # SMALL_CAP_THRESHOLD THEN SMALL_CAP
    ELSE MICRO_CAP

determineCategoryExclusive(stock) ==
    exclusiveCategoryOfMarketCap(Get(stock, kMarketCap),
                                 NumberOf(Get(stock, kMarketCap)))

\* categorizeStocksByMarketCap: determineCategory, from the cell and from
\* Number(cell)
determinedCategoryOfMarketCap(marketCap, marketCapValue) ==
    IF Not(marketCap) \/ marketCap = Str(<<>>) \/ marketCapValue.nan
    THEN UNKNOWN
    ELSE IF AtLeast(marketCapValue, LARGE_CAP_THRESHOLD) THEN LARGE_CAP
    ELSE IF AtLeast(marketCapValue, MID_CAP_THRESHOLD) THEN MID_CAP
    ELSE IF AtLeast(marketCapValue, SMALL_CAP_THRESHOLD) THEN SMALL_CAP
    ELSE MICRO_CAP

determineCategory(stock) ==
    determinedCategoryOfMarketCap(Get(stock, kMarketCap),
                                  NumberOf(Get(stock, kMarketCap)))

\* categorizeStocksByMarketCap: the object pushed for a stock
categorizedStock(stock) ==
    [symbol            |-> Get(stock, kSymbol),
     description       |-> Get(stock, kDescription),
     marketCap         |-> Get(stock, kMarketCap),
     marketCapCurrency |-> Get(stock, kMarketCapCurrency)]

\* categorizeStocksByMarketCap: what forEach pushes to the array of one case
\* of the switch, in the order of the input; category[i] is what
\* determineCategory returned for the i-th stock
pushedFor(stocksData, category, categories) ==
    LET chosen == SelectSeq([i \in 1..Len(stocksData) |-> i],
                            LAMBDA i : category[i] \in categories)
    IN  [j \in 1..Len(chosen) |-> categorizedStock(stocksData[chosen[j]])]

\* the five arrays filled by the forEach
categorizedBy(stocksData, category) ==
    [largeCap |-> pushedFor(stocksData, category, {LARGE_CAP}),
     midCap   |-> pushedFor(stocksData, category, {MID_CAP}),
     smallCap |-> pushedFor(stocksData, category, {SMALL_CAP}),
     microCap |-> pushedFor(stocksData, category, {MICRO_CAP}),
     unknown  |-> pushedFor(stocksData, category,
                            {LARGE_CAP, MID_CAP, SMALL_CAP, MICRO_CAP, UNKNOWN}
                                \ {LARGE_CAP, MID_CAP, SMALL_CAP, MICRO_CAP})]

categorizeStocksByMarketCap(stocksData) ==
    categorizedBy(stocksData,
                  [i \in 1..Len(stocksData) |-> determineCategory(stocksData[i])])

\* processStocksData: the counts next to the arrays
withSummary(stocksData, categorizedStocks) ==
    [summary |-> [total    |-> Len(stocksData),
                  largeCap |-> Len(categorizedStocks.largeCap),
                  midCap   |-> Len(categorizedStocks.midCap),
                  smallCap |-> Len(categorizedStocks.smallCap),
                  microCap |-> Len(categorizedStocks.microCap),
                  unknown  |-> Len(categorizedStocks.unknown)],
     categorizedStocks |-> categorizedStocks]

processStocksData(stocksData) ==
    withSummary(stocksData, categorizeStocksByMarketCap(stocksData))

-----------------------------------------------------------------------------
(* Inputs of the categorization specification                              *)

Digits199999999999 == <<"1","9","9","9","9","9","9","9","9","9","9","9">>
Digits49999999999  == <<"4","9","9","9","9","9","9","9","9","9","9">>
Digits4999999999   == <<"4","9","9","9","9","9","9","9","9","9">>
\* "4,999,999,999"
TextWithSeparators == <<"4",",","9","9","9",",","9","9","9",",","9","9","9">>

\* the cells found under "Market capitalization": numbers at and just below
\* each threshold, 1, 0, -5, the same as text, text with separators, text
\* without a digit, the empty and the blank string, true and null
CapCells ==
    {BigNum(LARGE_CAP_THRESHOLD), BigNum(Digits199999999999),
     BigNum(MID_CAP_THRESHOLD), BigNum(Digits49999999999),
     BigNum(SMALL_CAP_THRESHOLD), BigNum(Digits4999999999),
     Num(10), Num(0), Num(-50),
     Str(SMALL_CAP_THRESHOLD), Str(Digits4999999999), Str(TextWithSeparators),
     Str(<<"0">>), Str(<<"-","5">>), Str(<<"n","/","a">>), Str(<<>>), Str(<<" ">>),
     Bool(TRUE), Null}

\* a stock with each of these cells, and one without the field
CapRows ==
    {<<Cell(kSymbol, Str(sX)), Cell(kMarketCap, v)>> : v \in CapCells}
        \cup {<<Cell(kSymbol, Str(sY))>>}

\* the longest dataset handed to the categorization
MaxCapRows == 2

InitCategory ==
    /\ data \in DataSets(CapRows, MaxCapRows)
    /\ priceColumn = <<>>
    /\ highColumn = <<>>
    /\ threshold = 0
    /\ result = <<>>
    /\ op = Op("init", <<>>, <<>>)
    /\ sortConfig = NoSort
    /\ filters = NoFilters
    /\ currentPage = 1
    /\ AppIdle

\* getCategoryForStock(data[i])
GetCategory ==
    /\ op.name = "init"
    /\ \E i \in 1..Len(data) :
          /\ result' = getCategoryForStock(data[i])
          /\ op' = Op("category", <<>>, i)
    /\ UNCHANGED <<appVars, data, priceColumn, highColumn, threshold, sortConfig, filters,
                   currentPage>>

ProcessStocks ==
    /\ op.name = "init"
    /\ result' = processStocksData(data)
    /\ op' = Op("process", <<>>, <<>>)
    /\ UNCHANGED <<appVars, data, priceColumn, highColumn, threshold, sortConfig, filters,
                   currentPage>>

NextCategory == GetCategory \/ ProcessStocks

SpecCategory == InitCategory /\ [][NextCategory]_vars

-----------------------------------------------------------------------------
(* Properties of the categorization                                        *)

AfterCategory == op.name = "category"

\* the "Market capitalization" cell of the stock that was categorized
CategorizedCell == Get(data[op.value], kMarketCap)

\* the tier of a number by the three thresholds, lower bounds inclusive
TierOf(v) ==
    IF ~v.neg /\ DigitsAtLeast(v.int, LARGE_CAP_THRESHOLD) THEN LARGE_CAP
    ELSE IF ~v.neg /\ DigitsAtLeast(v.int, MID_CAP_THRESHOLD) THEN MID_CAP
    ELSE IF ~v.neg /\ DigitsAtLeast(v.int, SMALL_CAP_THRESHOLD) THEN SMALL_CAP
    ELSE MICRO_CAP

C12_IsNumber(cell) == cell.t \in {"number", "bignumber"}

\* C12: getCategoryForStock on a numeric "Market capitalization" value v
\* returns LARGE_CAP if v >= 200,000,000,000, else MID_CAP if
\* v >= 50,000,000,000, else SMALL_CAP if v >= 5,000,000,000, else MICRO_CAP,
\* each lower bound inclusive.
C12_NumericTiers ==
    (AfterCategory /\ C12_IsNumber(CategorizedCell))
        => result = TierOf(NumberOf(CategorizedCell))

\* the same for every number but 0
C12_NonZeroTiers ==
    (AfterCategory /\ C12_IsNumber(CategorizedCell) /\ CategorizedCell # Num(0))
        => result = TierOf(NumberOf(CategorizedCell))

\* Value Coercion (4.1) of a cell, on digits: a number as it is, anything
\* else stringified (null and absent as "0"), stripped to digits, '.' and
\* '-', and the longest numeric prefix parsed
C13_Coerce(cell) ==
    IF C12_IsNumber(cell) THEN NumberOf(cell)
    ELSE LET s    == StripNonNumeric(IF Falsy(cell) THEN <<"0">> ELSE StringOf(cell))
             neg  == Len(s) > 0 /\ s[1] = "-"
             body == IF neg THEN Tail(s) ELSE s
             nInt == DigitRun(body)
         IN  IF nInt = 0 /\ ~(Len(body) > 1 /\ body[1] = "." /\ IsDigit(body[2]))
             THEN CapNaN
             ELSE CapNumber(neg, StripLeadingZeros(SubSeq(body, 1, nInt)))

\* absent, empty, or non-numeric
C13_NoNumber(cell) ==
    \/ cell.t \in {"undefined", "null"}
    \/ cell = Str(<<>>)
    \/ C13_Coerce(cell).nan

\* C13: the category is UNKNOWN exactly when the "Market capitalization"
\* field is absent, empty or non-numeric; every value that coerces to a
\* number under Value Coercion (the number 0, negative numbers and text with
\* separators included) gets one of the four tiers, a value below
\* 5,000,000,000 MICRO_CAP.
C13_UnknownIffNoNumber ==
    AfterCategory =>
        result = (IF C13_NoNumber(CategorizedCell) THEN UNKNOWN
                  ELSE TierOf(C13_Coerce(CategorizedCell)))

\* the cells on which the code and C13 differ
C13_Differs(cell) ==
    cell \in {Num(0), Str(TextWithSeparators), Str(<<" ">>), Bool(TRUE)}

\* on every other cell the code does what C13 says
C13_ElsewhereAsClaimed ==
    (AfterCategory /\ ~C13_Differs(CategorizedCell)) =>
        result = (IF C13_NoNumber(CategorizedCell) THEN UNKNOWN
                  ELSE TierOf(C13_Coerce(CategorizedCell)))

AfterProcess == op.name = "process"

\* the bucket of a category in the result of processStocksData
C14_Bucket(category) ==
    CASE category = LARGE_CAP -> result.categorizedStocks.largeCap
      [] category = MID_CAP   -> result.categorizedStocks.midCap
      [] category = SMALL_CAP -> result.categorizedStocks.smallCap
      [] category = MICRO_CAP -> result.categorizedStocks.microCap
      [] category = UNKNOWN   -> result.categorizedStocks.unknown

C14_Count(category) ==
    CASE category = LARGE_CAP -> result.summary.largeCap
      [] category = MID_CAP   -> result.summary.midCap
      [] category = SMALL_CAP -> result.summary.smallCap
      [] category = MICRO_CAP -> result.summary.microCap
      [] category = UNKNOWN   -> result.summary.unknown

\* the input rows getCategoryForStock puts in a category, as they are pushed
C14_RowsOf(category) ==
    LET rows == SelectSeq(data, LAMBDA stock : getCategoryForStock(stock) = category)
    IN  [i \in 1..Len(rows) |-> categorizedStock(rows[i])]

\* C14: processStocksData partitions its input: every input row is in exactly
\* one of the five buckets, the bucket of the category getCategoryForStock
\* gives it; the five summary counts are the bucket sizes and sum to
\* summary.total, the number of input rows.
C14_Partition ==
    AfterProcess =>
        /\ \A category \in {LARGE_CAP, MID_CAP, SMALL_CAP, MICRO_CAP, UNKNOWN} :
              /\ C14_Bucket(category) = C14_RowsOf(category)
              /\ C14_Count(category) = Len(C14_Bucket(category))
        /\ result.summary.total = Len(data)
        /\ result.summary.total =
              result.summary.largeCap + result.summary.midCap
                  + result.summary.smallCap + result.summary.microCap
                  + result.summary.unknown

\* a stock at a threshold and a stock without a number have been processed
C14_Witness ==
    /\ AfterProcess
    /\ result.summary.total = 2
    /\ result.summary.smallCap = 1
    /\ result.summary.unknown = 1
    /\ result.categorizedStocks.smallCap[1].marketCap = BigNum(SMALL_CAP_THRESHOLD)

-----------------------------------------------------------------------------
(* Value coercion: extractNumericPrice on one cell                         *)

\* extractNumericPrice applied to a number it returned: NaN is a number too
\* (typeof NaN === 'number') and is returned as it is
extractNumericPriceOfNumber(x) ==
    IF isNaN(x) THEN x ELSE extractNumericPrice(Num(x.v))

\* the characters of a text cell
TextChars == {"5", "9", ".", "-", "$"}

\* the longest text cell
MaxTextLen == 3

Texts == UNION {[1..n -> TextChars] : n \in 0..MaxTextLen}

\* text cells, numbers (0, 95, -5, 0.5), booleans and null
CoerceCells ==
    {Str(t) : t \in Texts} \cup {Num(0), Num(950), Num(-50), Num(5)}
        \cup {Bool(TRUE), Bool(FALSE), Null}

\* one row with the cell under "Price", or without the key
CoerceRows == {<<Cell(kPrice, v)>> : v \in CoerceCells} \cup {<<Cell(kSymbol, Str(sX))>>}

InitCoerce ==
    /\ \E row \in CoerceRows : data = <<row>>
    /\ priceColumn = kPrice
    /\ highColumn = <<>>
    /\ threshold = 0
    /\ result = <<>>
    /\ op = Op("init", <<>>, <<>>)
    /\ sortConfig = NoSort
    /\ filters = NoFilters
    /\ currentPage = 1
    /\ AppIdle

\* extractNumericPrice(row[priceColumn])
Coerce ==
    /\ op.name = "init"
    /\ result' = extractNumericPrice(Get(data[1], priceColumn))
    /\ op' = Op("coerce", <<>>, <<>>)
    /\ UNCHANGED <<appVars, data, priceColumn, highColumn, threshold, sortConfig, filters,
                   currentPage>>

\* extractNumericPrice of the number just returned
CoerceAgain ==
    /\ op.name = "coerce"
    /\ result' = extractNumericPriceOfNumber(result)
    /\ op' = Op("coerceAgain", <<>>, <<>>)
    /\ UNCHANGED <<appVars, data, priceColumn, highColumn, threshold, sortConfig, filters,
                   currentPage>>

NextCoerce == Coerce \/ CoerceAgain

SpecCoerce == InitCoerce /\ [][NextCoerce]_vars

\* the cell that was coerced
CoercedCell == Get(data[1], priceColumn)

\* s starts with a numeric literal: an optional '-', then a digit, or a point
\* and a digit
C15_HasLiteral(s) ==
    LET body == IF Len(s) > 0 /\ s[1] = "-" THEN Tail(s) ELSE s
    IN  \/ Len(body) >= 1 /\ IsDigit(body[1])
        \/ Len(body) >= 2 /\ body[1] = "." /\ IsDigit(body[2])

\* what is left of a cell that is not a number after stringifying (null,
\* absent and other falsy values as "0") and stripping
C15_Stripped(cell) ==
    StripNonNumeric(IF Falsy(cell) THEN <<"0">> ELSE StringOf(cell))

\* C15: extractNumericPrice returns a numeric input unchanged, returns 0 for
\* null or absent input, is idempotent (coerce(coerce(x)) = coerce(x) for
\* every cell x), and never throws: an input with no valid numeric literal
\* left after stripping everything but digits, '.' and '-' yields NaN.
C15_Coercion ==
    /\ op.name \in {"coerce", "coerceAgain"} =>
          /\ isNaN(result) \/ result = Finite(result.v)
          /\ CoercedCell.t = "number" => result = Finite(CoercedCell.n)
          /\ CoercedCell.t \in {"null", "undefined"} => result = Finite(0)
          /\ CoercedCell.t # "number" =>
                (isNaN(result) <=> ~C15_HasLiteral(C15_Stripped(CoercedCell)))
    /\ op.name = "coerceAgain" => result = extractNumericPrice(CoercedCell)

\* a text with characters left after stripping but no literal has been
\* coerced twice: NaN both times
C15_Witness ==
    /\ op.name = "coerceAgain"
    /\ isNaN(result)
    /\ CoercedCell.t = "string"
    /\ Len(C15_Stripped(CoercedCell)) = 2

\* null has been coerced twice: 0 both times
C15_WitnessNull ==
    /\ op.name = "coerceAgain" /\ CoercedCell = Null /\ result = Finite(0)

-----------------------------------------------------------------------------
(* Column detection: findColumnNames                                       *)

sSymbol == <<"s","y","m","b","o","l">>
sTicker == <<"t","i","c","k","e","r">>
sCode   == <<"c","o","d","e">>

\* the element Array.prototype.find would return from the last matching
\* position
findLast(hs, hits) ==
    IF hits # {} THEN hs[CHOOSE i \in hits : \A j \in hits : j <= i] ELSE <<>>

\* headers.find(predicate) || '' : the first element the predicate holds
\* for, hits being the positions where it holds
find(hs, hits) ==
    IF hits # {} THEN hs[CHOOSE i \in hits : \A j \in hits : i <= j] ELSE <<>>

isPriceHeader(header) ==
    LET lower == toLowerCase(header)
    IN  includes(lower, sPrice) \/ lower = sPrice

isHighHeader(header) ==
    LET lower == toLowerCase(header)
    IN  \/ includes(lower, sHighAllTime)
        \/ includes(lower, sAllTimeHigh)
        \/ includes(lower, sAth)

isSymbolHeader(header) ==
    LET lower == toLowerCase(header)
    IN  lower = sSymbol \/ includes(lower, sTicker) \/ includes(lower, sCode)

findColumnNames(hs) ==
    [priceColumn  |-> find(hs, {i \in 1..Len(hs) : isPriceHeader(hs[i])}),
     highColumn   |-> find(hs, {i \in 1..Len(hs) : isHighHeader(hs[i])}),
     symbolColumn |-> find(hs, {i \in 1..Len(hs) : isSymbolHeader(hs[i])})]

-----------------------------------------------------------------------------
(* Inputs of the column-detection specification                            *)

kAllTimeHigh == <<"A","l","l"," ","T","i","m","e"," ","H","i","g","h">>
kAthUpper    == <<"A","T","H">>
kPath        == <<"P","a","t","h">>
kSymbolUpper == <<"S","Y","M","B","O","L">>
kSymbols     == <<"S","y","m","b","o","l","s">>
kTicker      == <<"T","i","c","k","e","r">>
kZipCode     == <<"Z","i","p"," ","C","o","d","e">>
kHigh        == <<"H","i","g","h">>

HeaderPool ==
    {kPrice, kCurrentPrice, kHighAllTime, kAllTimeHigh, kAthUpper, kPath,
     kSymbol, kSymbolUpper, kSymbols, kTicker, kZipCode, kSector, kHigh}

MaxHeaders == 3

\* the keys of an object are distinct
HeaderLists ==
    {hs \in DataSets(HeaderPool, MaxHeaders) :
        \A i, j \in 1..Len(hs) : hs[i] = hs[j] => i = j}

InitColumns ==
    /\ headers \in HeaderLists
    /\ uploadStatus = [status |-> "idle", message |-> ""]
    /\ fileName = ""
    /\ copySuccess = FALSE
    /\ pending = {}
    /\ data = <<>>
    /\ priceColumn = <<>>
    /\ highColumn = <<>>
    /\ threshold = 0
    /\ result = <<>>
    /\ op = Op("init", <<>>, <<>>)
    /\ sortConfig = NoSort
    /\ filters = NoFilters
    /\ currentPage = 1

\* const { priceColumn, highColumn } = findColumnNames(headers)
FindColumns ==
    /\ op.name = "init"
    /\ LET found == findColumnNames(headers)
       IN  /\ priceColumn' = found.priceColumn
           /\ highColumn' = found.highColumn
           /\ result' = found
    /\ op' = Op("findColumnNames", <<>>, <<>>)
    /\ UNCHANGED <<appVars, data, threshold, sortConfig, filters, currentPage>>

NextColumns == FindColumns

SpecColumns == InitColumns /\ [][NextColumns]_vars

-----------------------------------------------------------------------------
(* Properties of column detection                                          *)

AfterFindColumns == op.name = "findColumnNames"

C16_Price(h) == C9_Contains(h, sPrice)

C16_High(h) ==
    \/ C9_Contains(h, sHighAllTime)
    \/ C9_Contains(h, sAllTimeHigh)
    \/ C9_Contains(h, sAth)

C16_Symbol(h) ==
    \/ Len(h) = Len(sSymbol) /\ C9_Contains(h, sSymbol)
    \/ C9_Contains(h, sTicker)
    \/ C9_Contains(h, sCode)

\* column is the first of the headers at the matching positions, the empty
\* string when there is none
C16_FirstOf(column, matching) ==
    IF matching = {}
    THEN column = <<>>
    ELSE \E i \in matching :
            /\ column = headers[i]
            /\ \A j \in matching : i <= j

\* C16: findColumnNames returns, for each of price, high and symbol, the
\* first header in header order that matches case-insensitively (price: it
\* contains "price"; high: it contains "high all time", "all time high" or
\* "ath"; symbol: it equals "symbol" or contains "ticker" or "code"), with
\* no preference for an exact match over an earlier substring match, and
\* the empty string when no header matches.
C16_FirstMatch ==
    AfterFindColumns =>
        /\ C16_FirstOf(result.priceColumn,
                       {i \in 1..Len(headers) : C16_Price(headers[i])})
        /\ C16_FirstOf(result.highColumn,
                       {i \in 1..Len(headers) : C16_High(headers[i])})
        /\ C16_FirstOf(result.symbolColumn,
                       {i \in 1..Len(headers) : C16_Symbol(headers[i])})

\* an earlier substring match has won over a later exact one, a header
\* that merely contains "ath" is the high column, and no header is a symbol
C16_Witness ==
    /\ AfterFindColumns
    /\ headers = <<kCurrentPrice, kPrice, kPath>>
    /\ result.priceColumn = kCurrentPrice
    /\ result.highColumn = kPath
    /\ result.symbolColumn = <<>>

-----------------------------------------------------------------------------
(* Derived fields: addTradingViewSymbols                                   *)

kTVSymbol == <<"T","V"," ","S","Y","M","B","O","L">>
kCategory == <<"C","a","t","e","g","o","r","y">>
sNSE      == <<"N","S","E",":">>

\* the text of a MarketCapCategory member
CategoryText(category) ==
    CASE category = LARGE_CAP -> <<"L","a","r","g","e"," ","C","a","p">>
      [] category = MID_CAP   -> <<"M","i","d"," ","C","a","p">>
      [] category = SMALL_CAP -> <<"S","m","a","l","l"," ","C","a","p">>
      [] category = MICRO_CAP -> <<"M","i","c","r","o"," ","C","a","p">>
      [] category = UNKNOWN   -> <<"U","n","k","n","o","w","n">>

\* { ...row, [key]: value } : an own key keeps its place and takes the new
\* value, a new key goes last
Put(row, key, value) ==
    IF HasKey(row, key)
    THEN [i \in 1..Len(row) |->
             IF row[i].k = key THEN Cell(key, value) ELSE row[i]]
    ELSE Append(row, Cell(key, value))

\* Object.keys(row).find(...)
symbolKeyOf(row) ==
    FindKey(row, {i \in 1..Len(row) : isSymbolHeader(row[i].k)})

withTradingViewSymbol(row) ==
    LET symbolKey == symbolKeyOf(row)
    IN  IF symbolKey.found /\ ~Not(Get(row, symbolKey.key))
        THEN Put(Put(row, kTVSymbol,
                     Str(sNSE \o StringOf(Get(row, symbolKey.key)))),
                 kCategory, Str(CategoryText(getCategoryForStock(row))))
        ELSE row

addTradingViewSymbols(rows) ==
    [i \in 1..Len(rows) |-> withTradingViewSymbol(rows[i])]

-----------------------------------------------------------------------------
(* Inputs of the derived-field specification                               *)

RowTicker == <<Cell(kTicker, Str(sY)), Cell(kPrice, Num(950))>>
RowCodeFirst == <<Cell(kZipCode, Num(70)), Cell(kSymbol, Str(sX))>>
RowEmptySymbol == <<Cell(kSymbol, Str(<<>>)), Cell(kPrice, Num(950))>>
RowZeroCode == <<Cell(kZipCode, Num(0)), Cell(kPrice, Num(950))>>
RowNullSymbol == <<Cell(kSymbol, Null), Cell(kPrice, Num(950))>>
RowNearMiss == <<Cell(kSymbols, Str(sX)), Cell(kPrice, Num(950))>>
RowUpperSymbol == <<Cell(kSymbolUpper, Bool(TRUE))>>
RowOwnCategory == <<Cell(kSymbol, Str(sX)), Cell(kCategory, Str(sTech))>>
RowLargeCap == <<Cell(kSymbol, Str(sZ)),
                 Cell(kMarketCap, BigNum(LARGE_CAP_THRESHOLD))>>

SymbolRows ==
    {RowA, RowC, RowTicker, RowCodeFirst, RowEmptySymbol, RowZeroCode,
     RowNullSymbol, RowNearMiss, RowUpperSymbol, RowOwnCategory, RowLargeCap}

MaxSymbolRows == 2

InitSymbols ==
    /\ data \in DataSets(SymbolRows, MaxSymbolRows)
    /\ priceColumn = <<>>
    /\ highColumn = <<>>
    /\ threshold = 0
    /\ result = <<>>
    /\ op = Op("init", <<>>, <<>>)
    /\ sortConfig = NoSort
    /\ filters = NoFilters
    /\ currentPage = 1
    /\ AppIdle

\* const processedData = addTradingViewSymbols(data)
AddTradingViewSymbols ==
    /\ op.name = "init"
    /\ result' = addTradingViewSymbols(data)
    /\ op' = Op("addTradingViewSymbols", <<>>, <<>>)
    /\ UNCHANGED <<appVars, data, priceColumn, highColumn, threshold,
                   sortConfig, filters, currentPage>>

NextSymbols == AddTradingViewSymbols

SpecSymbols == InitSymbols /\ [][NextSymbols]_vars

-----------------------------------------------------------------------------
(* Properties of the derived fields                                        *)

AfterSymbols == op.name = "addTradingViewSymbols"

\* the positions of the row's keys that name a symbol column
C17_SymbolKeys(row) == {i \in 1..Len(row) : C16_Symbol(row[i].k)}

\* the value under the first symbol key of a row that has one
C17_SymbolValue(row) ==
    row[CHOOSE i \in C17_SymbolKeys(row) :
            \A j \in C17_SymbolKeys(row) : i <= j].v

\* every original field of the row is in the output row with its value
C17_Preserved(row, out) ==
    \A i \in 1..Len(row) : HasKey(out, row[i].k) /\ Get(out, row[i].k) = row[i].v

\* the output row is as C17 says for the input row
C17_RowAsClaimed(row, out) ==
    /\ IF C17_SymbolKeys(row) # {}
       THEN /\ HasKey(out, kTVSymbol)
            /\ Get(out, kTVSymbol).t = "string"
            /\ Get(out, kTVSymbol).s = sNSE \o StringOf(C17_SymbolValue(row))
       ELSE ~HasKey(out, kTVSymbol)
    /\ C17_Preserved(row, out)

\* C17: addTradingViewSymbols adds a field named exactly "TV SYMBOL" with
\* value "NSE:" followed by the row's symbol value to every row in which a
\* symbol column (key equal to "symbol", or containing "ticker" or "code",
\* case-insensitive) is resolved, and adds it to no other row; all original
\* fields of every row are preserved with unchanged values.
C17_SymbolAdded ==
    AfterSymbols =>
        /\ Len(result) = Len(data)
        /\ \A i \in 1..Len(data) : C17_RowAsClaimed(data[i], result[i])

\* the rows C17 is about whose symbol value is truthy and that have no
\* field named "Category" of their own
C17_Plain(row) ==
    /\ ~HasKey(row, kCategory)
    /\ C17_SymbolKeys(row) # {} => ~Not(C17_SymbolValue(row))

\* on those rows the output is as claimed
C17_AsClaimedWhenPlain ==
    AfterSymbols =>
        /\ Len(result) = Len(data)
        /\ \A i \in 1..Len(data) :
              C17_Plain(data[i]) => C17_RowAsClaimed(data[i], result[i])

\* a row with a symbol and one without have been processed
C17_PlainWitness ==
    /\ AfterSymbols
    /\ data = <<RowCodeFirst, RowNearMiss>>
    /\ Get(result[1], kTVSymbol) = Str(sNSE \o <<"7">>)
    /\ result[2] = RowNearMiss

-----------------------------------------------------------------------------
(* Upload: FileUpload, processCSV and AppMain                              *)

\* AppMain: PERCENT_THRESHOLD = 20, in tenths of a percent
PERCENT_THRESHOLD == 200

Status(status, message) == [status |-> status, message |-> message]

\* a file chosen by the user: its name, whether its extension is accepted, what
\* reading and parsing it will come to, and the rows of its first sheet
File(name, valid, outcome, rows) ==
    [name |-> name, valid |-> valid, outcome |-> outcome, rows |-> rows]

\* Object.keys(jsonData[0])
KeysOf(row) == [i \in 1..Len(row) |-> row[i].k]

\* AppMain.handleDataParsed followed by the render: the columns are found
\* again from the new headers
handleDataParsed(rows, hs) ==
    /\ data' = rows
    /\ headers' = hs
    /\ priceColumn' = findColumnNames(hs).priceColumn
    /\ highColumn' = findColumnNames(hs).highColumn

\* the rows AppMain hands to the two analysis panels
stocksWithinThreshold ==
    IF Len(data) = 0 THEN <<>>
    ELSE findStocksWithinThreshold(data, priceColumn, highColumn, PERCENT_THRESHOLD)

stocksAtAllTimeHigh ==
    IF Len(data) = 0 THEN <<>>
    ELSE findStocksAtAllTimeHigh(data, priceColumn, highColumn, DefaultTolerancePercent)

\* a panel is on the screen only when it has rows
WithinPanelShown == Len(stocksWithinThreshold) > 0
AtHighPanelShown == Len(stocksAtAllTimeHigh) > 0

\* the most reads in flight at a time
MaxPending == 2

\* FileUpload.handleFileSelection: processCSV announces the upload and
\* starts the read, or the file type is refused
handleFileSelection(file) ==
    /\ IF file.valid
       THEN /\ Cardinality(pending) < MaxPending
            /\ fileName' = file.name
            /\ uploadStatus' = Status("uploading", "Processing file...")
            /\ pending' = pending \cup {file}
       ELSE /\ uploadStatus' = Status("error", "Please upload a CSV or Excel file")
            /\ UNCHANGED <<fileName, pending>>
    /\ UNCHANGED <<data, headers, priceColumn, highColumn, threshold, result, op,
                   sortConfig, filters, currentPage, copySuccess>>

\* reader.onload of one of the reads in flight
ReaderOnLoad(file) ==
    /\ file \in pending
    /\ file.outcome \in {"rows", "parseError"}
    /\ pending' = pending \ {file}
    /\ IF file.outcome = "parseError"
       THEN /\ uploadStatus' = Status("error", "Failed to parse CSV file")
            /\ UNCHANGED <<data, headers, priceColumn, highColumn>>
       ELSE IF Len(file.rows) > 0
       THEN /\ handleDataParsed(file.rows, KeysOf(file.rows[1]))
            /\ uploadStatus' = Status("success", "File uploaded successfully")
       ELSE /\ uploadStatus' = Status("error", "The CSV file appears to be empty")
            /\ UNCHANGED <<data, headers, priceColumn, highColumn>>
    /\ UNCHANGED <<threshold, result, op, sortConfig, filters, currentPage,
                   copySuccess, fileName>>

\* reader.onerror of one of the reads in flight
ReaderOnError(file) ==
    /\ file \in pending
    /\ file.outcome = "readError"
    /\ pending' = pending \ {file}
    /\ uploadStatus' = Status("error", "Error reading file")
    /\ UNCHANGED <<data, headers, priceColumn, highColumn, threshold, result, op,
                   sortConfig, filters, currentPage, copySuccess, fileName>>

\* FileUpload.clearFile
clearFile ==
    /\ fileName' = ""
    /\ uploadStatus' = Status("idle", "")
    /\ handleDataParsed(<<>>, <<>>)
    /\ UNCHANGED <<threshold, result, op, sortConfig, filters, currentPage,
                   copySuccess, pending>>

-----------------------------------------------------------------------------
(* Inputs of the upload specification                                      *)

FileStocks   == File("stocks.csv", TRUE, "rows", <<RowA, RowFar>>)
FileNear     == File("near.xlsx", TRUE, "rows", <<RowNear>>)
FileNoRows   == File("empty.csv", TRUE, "rows", <<>>)
FileGarbled  == File("garbled.xls", TRUE, "parseError", <<>>)
FileUnread   == File("unread.csv", TRUE, "readError", <<>>)
FileWrongType == File("notes.txt", FALSE, "rows", <<>>)

Files == {FileStocks, FileNear, FileNoRows, FileGarbled, FileUnread, FileWrongType}

InitUpload ==
    /\ data = <<>>
    /\ priceColumn = <<>>
    /\ highColumn = <<>>
    /\ threshold = 0
    /\ result = <<>>
    /\ op = Op("init", <<>>, <<>>)
    /\ sortConfig = NoSort
    /\ filters = NoFilters
    /\ currentPage = 1
    /\ AppIdle

NextUpload ==
    \/ \E file \in Files : handleFileSelection(file)
    \/ \E file \in Files : ReaderOnLoad(file)
    \/ \E file \in Files : ReaderOnError(file)
    \/ clearFile

SpecUpload == InitUpload /\ [][NextUpload]_vars

-----------------------------------------------------------------------------
(* Properties of the upload                                                *)

\* a read in flight ends in one of the three failures: a read error, a
\* parse exception, or a workbook with zero rows
C18_ParsingFails ==
    \E file \in Files :
        /\ ReaderOnLoad(file) \/ ReaderOnError(file)
        /\ file.outcome = "rows" => Len(file.rows) = 0

\* C18: when the file-parsing collaborator fails (read error, parse
\* exception, or a workbook with zero rows) the core receives an empty row
\* set and an empty header list and behaves as for an empty dataset: after a
\* successful upload followed by a failed one it no longer holds or displays
\* the rows of the earlier upload.
C18_FailureEmptiesCore ==
    [][C18_ParsingFails =>
          /\ data' = <<>>
          /\ headers' = <<>>
          /\ ~WithinPanelShown'
          /\ ~AtHighPanelShown']_vars

\* what a failure does: the status alone changes, and rows, headers and
\* columns (and with them the panels) stay as the earlier upload left them
C18_FailureKeepsCore ==
    [][C18_ParsingFails =>
          /\ uploadStatus'.status = "error"
          /\ UNCHANGED <<data, headers, priceColumn, highColumn>>]_vars

\* an upload has failed after a successful one: the error is reported and
\* the earlier rows are still held and shown
C18_FailedAfterSuccess ==
    /\ uploadStatus = Status("error", "The CSV file appears to be empty")
    /\ data = <<RowA, RowFar>>
    /\ WithinPanelShown
    /\ pending = {}

-----------------------------------------------------------------------------
(* Clipboard export: useStockAnalysis.copySymbolsToClipboard               *)

\* Array.prototype.join(',') of texts
RECURSIVE join(_)
join(texts) ==
    IF Len(texts) = 0 THEN <<>>
    ELSE IF Len(texts) = 1 THEN texts[1]
    ELSE texts[1] \o <<",">> \o join(Tail(texts))

\* processedData.map(row => row["TV SYMBOL"]).filter(Boolean).join(',')
symbolsOf(rows) ==
    LET cells  == [i \in 1..Len(rows) |-> Get(rows[i], kTVSymbol)]
        truthy == SelectSeq(cells, LAMBDA cell : ~Not(cell))
    IN  join([i \in 1..Len(truthy) |-> StringOf(truthy[i])])

\* asynchronous work in flight: a clipboard write or the two-second timer
Write(id, text) == [kind |-> "write", id |-> id, text |-> text]
Timer(id)       == [kind |-> "timer", id |-> id, text |-> <<>>]

\* the panel with the copy button is on the screen
PanelRendered == Len(data) # 0

\* copySymbolsToClipboard: the write is started, nothing else happens yet
copySymbolsToClipboard ==
    /\ PanelRendered
    /\ \E id \in 1..MaxPending :
          /\ \A p \in pending : p.id # id
          /\ \A smaller \in 1..(id - 1) : \E p \in pending : p.id = smaller
          /\ pending' = pending \cup {Write(id, symbolsOf(data))}
    /\ op' = Op("copy", <<>>, <<>>)
    /\ UNCHANGED <<data, headers, uploadStatus, fileName, copySuccess,
                   priceColumn,
                   highColumn, threshold, result, sortConfig, filters, currentPage>>

\* the catch handler wrongly flagging success
WriteRejectedShowsCopied(w) ==
    /\ w \in pending
    /\ w.kind = "write"
    /\ pending' = pending \ {w}
    /\ copySuccess' = TRUE
    /\ op' = Op("writeRejected", <<>>, <<>>)
    /\ UNCHANGED <<data, headers, uploadStatus, fileName, priceColumn, highColumn,
                   threshold, result, sortConfig, filters, currentPage>>

\* .then: the write succeeded; the clipboard holds the text, the indicator
\* is set and the timer started
WriteResolved(w) ==
    /\ w \in pending
    /\ w.kind = "write"
    /\ pending' = (pending \ {w}) \cup {Timer(w.id)}
    /\ copySuccess' = TRUE
    /\ result' = w.text
    /\ op' = Op("writeResolved", <<>>, <<>>)
    /\ UNCHANGED <<data, headers, uploadStatus, fileName, priceColumn, highColumn,
                   threshold, sortConfig, filters, currentPage>>

\* .catch: the write failed; the error is logged
WriteRejected(w) ==
    /\ w \in pending
    /\ w.kind = "write"
    /\ pending' = pending \ {w}
    /\ op' = Op("writeRejected", <<>>, <<>>)
    /\ UNCHANGED <<data, headers, uploadStatus, fileName, copySuccess,
                   priceColumn,
                   highColumn, threshold, result, sortConfig, filters, currentPage>>

\* setTimeout(() => setCopySuccess(false), 2000)
TimerFired(t) ==
    /\ t \in pending
    /\ t.kind = "timer"
    /\ pending' = pending \ {t}
    /\ copySuccess' = FALSE
    /\ op' = Op("timer", <<>>, <<>>)
    /\ UNCHANGED <<data, headers, uploadStatus, fileName, priceColumn, highColumn,
                   threshold, result, sortConfig, filters, currentPage>>

-----------------------------------------------------------------------------
(* Inputs of the clipboard specification                                   *)

CopyRows == {RowA, RowNear, RowC}

MaxCopyRows == 2

\* the one column sorted and filtered on here
CopyKeys == {kSymbol}

\* the rows of the panel: processedData, never empty when the panel shows
CopyDataSets ==
    {addTradingViewSymbols(rows) :
        rows \in {d \in DataSets(CopyRows, MaxCopyRows) :
                     Len(d) > 0 /\ HasKey(d[1], kSymbol)}}

InitCopy ==
    /\ data \in CopyDataSets
    /\ priceColumn = kPrice
    /\ highColumn = kHighAllTime
    /\ threshold = 0
    /\ result = <<>>
    /\ op = Op("init", <<>>, <<>>)
    /\ sortConfig = NoSort
    /\ filters = NoFilters
    /\ currentPage = 1
    /\ AppIdle

NextCopy ==
    \/ copySymbolsToClipboard
    \/ \E w \in pending : WriteResolved(w)
    \/ \E w \in pending : WriteRejected(w)
    \/ \E t \in pending : TimerFired(t)
    \/ \E key \in CopyKeys : requestSort(key)
    \/ \E key \in CopyKeys : \E value \in Patterns : handleFilterChange(key, value)
    \/ PreviousPage
    \/ NextPage

SpecCopy == InitCopy /\ [][NextCopy]_vars

-----------------------------------------------------------------------------
(* Properties of the clipboard export                                      *)

\* a step in which a write is requested (and so not yet completed) or fails
C19_IncompleteOrFailed ==
    copySymbolsToClipboard \/ \E w \in pending : WriteRejected(w)

\* C19: a clipboard write that fails, or that has not yet completed, changes
\* nothing in the core (the processed rows, SortConfig, FilterConfig and
\* currentPage stay as they were), and the copy-success indicator becomes
\* true only after a write has succeeded.
C19_ClipboardFailure ==
    /\ [][C19_IncompleteOrFailed =>
             UNCHANGED <<data, sortConfig, filters, currentPage, copySuccess>>]_vars
    /\ [][~copySuccess /\ copySuccess' =>
             \E w \in pending : WriteResolved(w)]_vars

\* a write has just failed, with a sort and a filter in place and the
\* indicator off
C19_Witness ==
    /\ op.name = "writeRejected"
    /\ sortConfig # NoSort
    /\ filters # NoFilters
    /\ ~copySuccess
    /\ pending = {}

\* a write has succeeded: the indicator is on and the clipboard holds the
\* symbols
C19_WitnessCopied ==
    /\ op.name = "writeResolved"
    /\ copySuccess
    /\ data = addTradingViewSymbols(<<RowA, RowNear>>)
    /\ result = <<"N","S","E",":","X",",","N","S","E",":","Y">>

-----------------------------------------------------------------------------
(* The empty table and the table filtered to nothing                       *)

\* "No data available.": the table got no rows
NoData == Len(data) = 0

\* rows were given, and the filters let none of them through
ZeroRowsAfterFiltering == Len(data) # 0 /\ Len(filteredData) = 0

\* the patterns with the one under key replaced by value
C20_Relaxed(key, value) ==
    [k \in DOMAIN filters \cup {key} |-> IF k = key THEN value ELSE filters[k]]

\* C20: a table given an empty row set is in an explicit "no data" state,
\* distinct from the state of a non-empty row set whose filter matches zero
\* rows: in the latter the header row and its filter inputs are still
\* present (the headers come from the pre-filter row set), so a later
\* setFilter that relaxes the pattern can make rows visible again.
C20_NoDataDistinct ==
    /\ [](NoData => ~TableRendered /\ tableHeaders = {})
    /\ [](ZeroRowsAfterFiltering =>
            /\ TableRendered
            /\ tableHeaders = {data[1][i].k : i \in 1..Len(data[1])}
            /\ tableHeaders # {}
            /\ \A key \in tableHeaders : ENABLED handleFilterChange(key, <<>>))
    /\ [][\A key \in tableHeaders :
            /\ handleFilterChange(key, <<>>)
            /\ \A k \in DOMAIN filters : k # key => filters[k] = <<>>
            /\ ZeroRowsAfterFiltering
            => /\ filters' = C20_Relaxed(key, <<>>)
               /\ currentPage' = 1
               /\ UNCHANGED <<data, sortConfig>>
               /\ Len(filteredDataOf(data, sortConfig, C20_Relaxed(key, <<>>)))
                     = Len(data)
               /\ Len(paginatedDataOf(data, sortConfig, C20_Relaxed(key, <<>>), 1))
                     > 0]_vars

\* rows were given and the two patterns typed in let none of them through
C20_Witness ==
    /\ ZeroRowsAfterFiltering
    /\ Len(data) = 2
    /\ DOMAIN filters = {kSector}
    /\ filters[kSector] = <<"1">>

\* the table got no rows
C20_WitnessNoData == NoData /\ ~TableRendered

-----------------------------------------------------------------------------
(* Key resolution and coercion of the two screens, row by row              *)

\* the keys and the numbers the within-threshold screen compares for a row
withinResolved(row, pCol, hCol) ==
    [priceKey |-> withinPriceKey(row, pCol),
     highKey  |-> withinHighKey(row, hCol),
     currentPrice |-> withinNumber(row, withinPriceKey(row, pCol).key),
     highPrice    |-> withinNumber(row, withinHighKey(row, hCol).key)]

\* the keys and the numbers the at-high screen compares for a row
atHighResolved(row, pCol, hCol) ==
    [priceKey |-> atHighPriceKey(row, pCol),
     highKey  |-> atHighHighKey(row, hCol),
     currentPrice |-> extractNumericPrice(Get(row, atHighPriceKey(row, pCol).key)),
     highPrice    |-> extractNumericPrice(Get(row, atHighHighKey(row, hCol).key))]

-----------------------------------------------------------------------------
(* Inputs of the resolution specification                                  *)

\* the named price column after another key containing "price"
RowPriceLater == <<Cell(kCurrentPrice, Num(500)), Cell(kPrice, Num(950)),
                   Cell(kHighAllTime, Num(1000))>>
\* the same cells, the named price column first
RowPriceFirst == <<Cell(kPrice, Num(950)), Cell(kCurrentPrice, Num(500)),
                   Cell(kHighAllTime, Num(1000))>>
\* the named high column after another key containing "high"
RowHighLater == <<Cell(kPrice, Num(950)), Cell(kHigh, Num(2000)),
                  Cell(kHighAllTime, Num(1000))>>
\* the same cells, the named high column first
RowHighFirst == <<Cell(kPrice, Num(950)), Cell(kHighAllTime, Num(1000)),
                  Cell(kHigh, Num(2000))>>
\* a high column found by "high" alone
RowHighOnly == <<Cell(kPrice, Num(950)), Cell(kHigh, Num(1000))>>
RowEmptyPrice == <<Cell(kPrice, Str(<<>>)), Cell(kHighAllTime, Num(1000))>>
RowFalsePrice == <<Cell(kPrice, Bool(FALSE)), Cell(kHighAllTime, Num(1000))>>
RowTruePrice == <<Cell(kPrice, Bool(TRUE)), Cell(kHighAllTime, Num(1000))>>

ResolveRows ==
    {RowA, RowC, RowNear, RowAlt, RowNoPrice, RowNoHigh, RowNullPrice,
     RowTextPrice, RowPriceLater, RowPriceFirst, RowHighLater, RowHighFirst,
     RowHighOnly, RowEmptyPrice, RowFalsePrice, RowTruePrice}

InitResolve ==
    /\ \E row \in ResolveRows : data = <<row>>
    /\ priceColumn \in {kPrice, <<>>}
    /\ highColumn \in {kHighAllTime, <<>>}
    /\ threshold = 0
    /\ result = <<>>
    /\ op = Op("init", <<>>, <<>>)
    /\ sortConfig = NoSort
    /\ filters = NoFilters
    /\ currentPage = 1
    /\ AppIdle

\* the filter callback of findStocksWithinThreshold on the row, up to the
\* comparison
ResolveWithin ==
    /\ op.name = "init"
    /\ result' = withinResolved(data[1], priceColumn, highColumn)
    /\ op' = Op("resolveWithin", <<>>, <<>>)
    /\ UNCHANGED <<appVars, data, priceColumn, highColumn, threshold,
                   sortConfig, filters, currentPage>>

\* the filter callback of findStocksAtAllTimeHigh on the row, up to the
\* comparison
ResolveAtHigh ==
    /\ op.name = "init"
    /\ result' = atHighResolved(data[1], priceColumn, highColumn)
    /\ op' = Op("resolveAtHigh", <<>>, <<>>)
    /\ UNCHANGED <<appVars, data, priceColumn, highColumn, threshold,
                   sortConfig, filters, currentPage>>

NextResolve == ResolveWithin \/ ResolveAtHigh

SpecResolve == InitResolve /\ [][NextResolve]_vars

-----------------------------------------------------------------------------
(* Properties of the key resolution                                        *)

AfterResolveWithin == op.name = "resolveWithin"
AfterResolveAtHigh == op.name = "resolveAtHigh"

\* the row has the supplied column name
C21_HasNamed(row, name) == name # <<>> /\ HasKey(row, name)

\* found is as C21 says for the supplied name and the needles of the
\* heuristic
C21_KeyAsClaimed(row, name, needles, found) ==
    IF C21_HasNamed(row, name)
    THEN found.found /\ found.key = name
    ELSE found.found =>
            /\ HasKey(row, found.key)
            /\ \E needle \in needles : C9_Contains(found.key, needle)

\* C21: in the within-threshold screen the effective price key of a row is
\* the supplied priceColumn name whenever the row has that key, and another
\* key containing "price" is used only when it does not; likewise the
\* effective high key is the supplied highColumn name whenever the row has
\* it, and a key containing "high" or "all time" only otherwise,
\* independent of the order of the row's keys.
C21_NamedKeyFirst ==
    AfterResolveWithin =>
        /\ C21_KeyAsClaimed(data[1], priceColumn, {sPrice}, result.priceKey)
        /\ C21_KeyAsClaimed(data[1], highColumn, {sHigh, sAllTime}, result.highKey)

\* the positions of the row's keys that are the name or contain a needle
C21_Candidates(row, name, needles) ==
    {i \in 1..Len(row) :
        \/ row[i].k = name
        \/ \E needle \in needles : C9_Contains(row[i].k, needle)}

\* found is the first candidate in the order of the row's keys
C21_FirstCandidate(row, name, needles, found) ==
    IF C21_Candidates(row, name, needles) = {}
    THEN ~found.found
    ELSE /\ found.found
         /\ \E i \in C21_Candidates(row, name, needles) :
               /\ found.key = row[i].k
               /\ \A j \in C21_Candidates(row, name, needles) : i <= j

\* what the screen does: the first key, in the order of the row's keys,
\* that is the name or matches the heuristic
C21_FirstCandidateWins ==
    AfterResolveWithin =>
        /\ C21_FirstCandidate(data[1], priceColumn, {sPrice}, result.priceKey)
        /\ C21_FirstCandidate(data[1], highColumn, {sHigh, sAllTime}, result.highKey)

\* the named price column came second and lost
C21_LaterNameLoses ==
    /\ AfterResolveWithin
    /\ data[1] = RowPriceLater
    /\ priceColumn = kPrice
    /\ result.priceKey.key = kCurrentPrice

-----------------------------------------------------------------------------
(* Properties relating the two screens                                     *)

\* the keys and numbers each screen has for the row and columns at hand
C22_Within == withinResolved(data[1], priceColumn, highColumn)
C22_AtHigh == atHighResolved(data[1], priceColumn, highColumn)

\* C22: the within-threshold screen and the at-high screen resolve the same
\* effective price key and high key for every row and coerce the cells with
\* the same Value Coercion: for every row, supplied columns and cell values
\* (including null, empty-string and boolean cells, null coercing to 0) the
\* price and high numbers the two operations compare are identical.
C22_SameNumbers ==
    AfterResolveAtHigh \/ AfterResolveWithin =>
        /\ C22_Within.priceKey = C22_AtHigh.priceKey
        /\ C22_Within.highKey = C22_AtHigh.highKey
        /\ ~KeyFalsy(C22_Within.priceKey) /\ ~KeyFalsy(C22_Within.highKey) =>
              /\ C22_Within.currentPrice = C22_AtHigh.currentPrice
              /\ C22_Within.highPrice = C22_AtHigh.highPrice
              /\ data[1][1].v = Null => C22_Within.currentPrice = Finite(0)

\* the rows on which the two screens do agree: the supplied names are the
\* first candidates of both, and the cells are numbers or text with a digit
C22_Agreeable(row) ==
    /\ priceColumn # <<>> /\ highColumn # <<>>
    /\ withinPriceKey(row, priceColumn).key = priceColumn
    /\ withinHighKey(row, highColumn).key = highColumn
    /\ \A key \in {priceColumn, highColumn} :
          \/ Get(row, key).t = "number"
          \/ /\ Get(row, key).t = "string"
             /\ \E i \in 1..Len(Get(row, key).s) : IsDigit(Get(row, key).s[i])

\* on those rows keys and numbers are the same
C22_SameWhenAgreeable ==
    AfterResolveAtHigh /\ C22_Agreeable(data[1]) =>
        /\ result.priceKey = C22_Within.priceKey
        /\ result.highKey = C22_Within.highKey
        /\ result.currentPrice = C22_Within.currentPrice
        /\ result.highPrice = C22_Within.highPrice

\* both screens have read "$95" of "$100" as 95 and 100
C22_AgreeWitness ==
    /\ AfterResolveAtHigh
    /\ data[1] = RowA
    /\ C22_Agreeable(data[1])
    /\ result.currentPrice = Finite(950)

-----------------------------------------------------------------------------
(* Ranking of rows with a missing key                                      *)

\* rows with and without a price key and a high key
RankKeyRows == {RowNoPrice, RowNoHigh, RowFar, RowNear, RowAlt}

MaxRankKeyRows == 3

InitRankKeys ==
    /\ data \in DataSets(RankKeyRows, MaxRankKeyRows)
    /\ \E named \in BOOLEAN :
          /\ priceColumn = (IF named THEN kPrice ELSE <<>>)
          /\ highColumn = (IF named THEN kHighAllTime ELSE <<>>)
    /\ threshold = 0
    /\ result = <<>>
    /\ op = Op("init", <<>>, <<>>)
    /\ sortConfig = NoSort
    /\ filters = NoFilters
    /\ currentPage = 1
    /\ AppIdle

\* one call of the comparator, on the rows at positions i (left) and j
CompareRows ==
    /\ op.name = "init"
    /\ \E i, j \in 1..Len(data) :
          /\ result' = rankCompare(data[i], data[j], priceColumn, highColumn)
          /\ op' = Op("compare", i, j)
    /\ UNCHANGED <<appVars, data, priceColumn, highColumn, threshold,
                   sortConfig, filters, currentPage>>

NextRankKeys == CompareRows \/ SortByProximity

SpecRankKeys == InitRankKeys /\ [][NextRankKeys]_vars

-----------------------------------------------------------------------------
(* Properties of the ranking of rows with a missing key                    *)

AfterCompare == op.name = "compare"

\* the row has the supplied name, or failing that a key the ranking's
\* heuristic accepts
C23_Resolved(row, name, needles) ==
    \/ name # <<>> /\ HasKey(row, name)
    \/ \E i \in 1..Len(row) : \E needle \in needles : C9_Contains(row[i].k, needle)

\* either key of the row is unresolved
C23_Unresolved(row) ==
    \/ ~C23_Resolved(row, priceColumn, {sPrice})
    \/ ~C23_Resolved(row, highColumn, {sHighAllTime, sAllTimeHigh, sAth})

\* every row of the input is in the output as often as in the input
C23_AllKept ==
    /\ Len(result) = Len(data)
    /\ \A row \in RankKeyRows :
          Cardinality({i \in 1..Len(data) : data[i] = row})
              = Cardinality({i \in 1..Len(result) : result[i] = row})

\* C23: in sortStocksByProximityToATH the price and high keys are resolved
\* from the comparator's left operand row on every comparison; when either
\* key is unresolved for that row the comparison result is 0 (neither row
\* ordered before the other), and such a row is kept in the output rather
\* than excluded.
C23_UnresolvedNeutral ==
    /\ AfterCompare /\ C23_Unresolved(data[op.key]) => result = Finite(0)
    /\ AfterRank => C23_AllKept

\* with no column names supplied the keys come from the left operand alone
\* and the claim holds
C23_NeutralWhenUnnamed ==
    /\ AfterCompare /\ priceColumn = <<>> /\ highColumn = <<>>
          /\ C23_Unresolved(data[op.key]) => result = Finite(0)
    /\ AfterRank => C23_AllKept

\* with no names supplied, a row without a price key was the left operand
\* of a comparison with a row that has both keys
C23_UnnamedWitness ==
    /\ AfterCompare
    /\ priceColumn = <<>>
    /\ data[op.key] = RowNoPrice
    /\ data[op.value] = RowFar
    /\ result = Finite(0)

\* a row without a price key has been ranked and is in the output
C23_KeptWitness ==
    /\ AfterRank
    /\ data = <<RowNoPrice, RowFar>>
    /\ C23_AllKept

-----------------------------------------------------------------------------
(* Sorting a column of mixed cells                                         *)

sA == <<"A">>
sB == <<"B">>
sC == <<"C">>
sD == <<"D">>
sE == <<"E">>
sF == <<"F">>
sG == <<"G">>

\* rows told apart by their symbol; under "Price" the numbers 2 and 10, the
\* texts "2", "1x" and "1X", true, and null
SortRows ==
    {<<Cell(kSymbol, Str(sA)), Cell(kPrice, Num(20))>>,
     <<Cell(kSymbol, Str(sB)), Cell(kPrice, Num(100))>>,
     <<Cell(kSymbol, Str(sC)), Cell(kPrice, Str(<<"2">>))>>,
     <<Cell(kSymbol, Str(sD)), Cell(kPrice, Str(<<"1","x">>))>>,
     <<Cell(kSymbol, Str(sE)), Cell(kPrice, Str(<<"1","X">>))>>,
     <<Cell(kSymbol, Str(sF)), Cell(kPrice, Bool(TRUE))>>,
     <<Cell(kSymbol, Str(sG)), Cell(kPrice, Null)>>}

MaxSortRows == 3

\* the rows of a table, each row once
SortDataSets ==
    {d \in DataSets(SortRows, MaxSortRows) :
        Len(d) > 0 /\ \A i, j \in 1..Len(d) : d[i] = d[j] => i = j}

InitSort ==
    /\ data \in SortDataSets
    /\ priceColumn = <<>>
    /\ highColumn = <<>>
    /\ threshold = 0
    /\ result = <<>>
    /\ op = Op("init", <<>>, <<>>)
    /\ sortConfig = NoSort
    /\ filters = NoFilters
    /\ currentPage = 1
    /\ AppIdle

\* what is typed into the filter input of the Price column: nothing, "2"
SortPatterns == {<<>>, <<"2">>}

\* clicks on the header of the Price column, and its filter input
NextSort ==
    \/ requestSort(kPrice)
    \/ \E value \in SortPatterns : handleFilterChange(kPrice, value)

SpecSort == InitSort /\ [][NextSort]_vars

-----------------------------------------------------------------------------
(* Properties of the table comparator                                      *)

C24_Ascending  == [key |-> kPrice, direction |-> "ascending"]
C24_Descending == [key |-> kPrice, direction |-> "descending"]

\* the text a cell is compared by when the pair is not two numbers
C24_Text(cell) == IF Falsy(cell) THEN <<>> ELSE StringOf(cell)

\* s is before t in case-insensitive string order
C24_Before(s, t) ==
    \E i \in 1..Len(t) :
        /\ \A j \in 1..(i - 1) : j <= Len(s) /\ C9_SameLetter(s[j], t[j])
        /\ \/ i = Len(s) + 1
           \/ /\ i <= Len(s)
              /\ ~C9_SameLetter(s[i], t[i])
              /\ CharCode(toLowerChar(s[i])) < CharCode(toLowerChar(t[i]))

\* the ascending order of two cells as C24 has it: -1, 0 or 1
C24_Order(x, y) ==
    IF x.t = "number" /\ y.t = "number"
    THEN (IF x.n < y.n THEN -1 ELSE IF x.n > y.n THEN 1 ELSE 0)
    ELSE IF C24_Before(C24_Text(x), C24_Text(y)) THEN -1
    ELSE IF C24_Before(C24_Text(y), C24_Text(x)) THEN 1
    ELSE 0

\* numeric for two numbers, case-insensitive text otherwise, and the
\* descending comparator the negation of the ascending one
C24_ComparatorAsClaimed ==
    sortConfig # NoSort =>
        \A i, j \in 1..Len(data) :
            /\ tableCompare(data[i], data[j], C24_Ascending)
                  = C24_Order(data[i][2].v, data[j][2].v)
            /\ tableCompare(data[i], data[j], C24_Descending)
                  = 0 - tableCompare(data[i], data[j], C24_Ascending)

\* the place of a row in the input
C24_InputIndex(row) == CHOOSE i \in 1..Len(data) : data[i] = row

\* rows that compare equal are in the output in their input order
C24_EqualKeepOrder ==
    sortConfig # NoSort =>
        \A p, q \in 1..Len(sortedData) :
            /\ p < q
            /\ tableCompare(sortedData[p], sortedData[q], sortConfig) = 0
            => C24_InputIndex(sortedData[p]) < C24_InputIndex(sortedData[q])

\* C24: the table sort comparator compares two values numerically when the
\* sorted field is numeric and otherwise by case-insensitive string order,
\* and the descending comparator is exactly the negation of the ascending
\* one for every pair of cell values (numbers, text, booleans, null/absent,
\* and mixed pairs); rows that compare equal keep their input order in both
\* directions.
C24_Comparator == C24_ComparatorAsClaimed /\ C24_EqualKeepOrder

\* a number, a text differing only in case from another, and a null cell have
\* been sorted downwards
C24_Witness ==
    /\ sortConfig = C24_Descending
    /\ Len(data) = 3
    /\ data[1][2].v = Str(<<"1","x">>)
    /\ data[2][2].v = Str(<<"1","X">>)
    /\ data[3][2].v = Null
    /\ sortedData = data

\* the sorted column holds numbers only, or no number at all
C24_UniformColumn ==
    \/ \A i \in 1..Len(data) : data[i][2].v.t = "number"
    \/ \A i \in 1..Len(data) : data[i][2].v.t # "number"

\* on such a column rows that compare equal keep their input order
C24_EqualKeepOrderWhenUniform ==
    C24_UniformColumn => C24_EqualKeepOrder

\* the text "2" before the numbers 10 and 2: sorted upwards the number 2
\* comes out before the text "2" it compares equal to
C24_MixedWitness ==
    /\ sortConfig = C24_Ascending
    /\ Len(data) = 3
    /\ data[1][2].v = Str(<<"2">>)
    /\ data[2][2].v = Num(100)
    /\ data[3][2].v = Num(20)
    /\ sortedData = <<data[3], data[2], data[1]>>

-----------------------------------------------------------------------------
(* The table while it stays mounted over dataset replacements              *)

\* Pagination: the first and the last item of "Showing a to b of n"
startItem(page) == (page - 1) * RowsPerPage + 1
endItem(page, totalItems) == Minimum(page * RowsPerPage, totalItems)

MountedRows == {TableRow1, TableRow2, TableRow3}

\* the longest row set handed to a mounted table
MaxMountedRows == 2

\* the row sets a panel is rendered with: never empty
MountedDataSets == {d \in DataSets(MountedRows, MaxMountedRows) : Len(d) > 0}

MountedPatterns == {<<>>, <<"T","E">>}

InitMounted ==
    /\ data \in MountedDataSets
    /\ priceColumn = <<>>
    /\ highColumn = <<>>
    /\ threshold = 0
    /\ result = <<>>
    /\ op = Op("init", <<>>, <<>>)
    /\ sortConfig = NoSort
    /\ filters = NoFilters
    /\ currentPage = 1
    /\ AppIdle

\* a new upload gives the panel another row set: the DataTable is rendered
\* again with the new data prop and keeps its state; op remembers the sort
\* and the page of that moment
ReplaceData ==
    /\ TableRendered
    /\ \E d \in MountedDataSets :
          /\ d # data
          /\ data' = d
    /\ op' = Op("replace", sortConfig, currentPage)
    /\ UNCHANGED <<appVars, priceColumn, highColumn, threshold, result,
                   sortConfig, filters, currentPage>>

NextMounted ==
    \/ \E key \in tableHeaders : requestSort(key)
    \/ \E key \in tableHeaders : \E value \in MountedPatterns :
          handleFilterChange(key, value)
    \/ PreviousPage
    \/ NextPage
    \/ ReplaceData

SpecMounted == InitMounted /\ [][NextMounted]_vars

-----------------------------------------------------------------------------
(* Properties of the sort configuration                                    *)

\* C25: SortConfig is changed only by requestSort: setFilter, page changes
\* and replacement of the row set leave its key and direction unchanged, and
\* once any requestSort has happened no sequence of table operations returns
\* SortConfig to the absent (insertion-order) state.
C25_OnlyRequestSort ==
    /\ [][sortConfig' # sortConfig =>
            /\ \E key \in tableHeaders : sortConfig' = sortAfterRequest(sortConfig, key)
            /\ UNCHANGED <<data, filters, currentPage>>]_vars
    /\ [][(\/ filters' # filters
           \/ currentPage' # currentPage
           \/ data' # data) => sortConfig' = sortConfig]_vars
    /\ [][sortConfig # NoSort => sortConfig' # NoSort]_vars

\* a row set was replaced while a descending sort and a filter were set, and
\* both are still there
C25_Witness ==
    /\ op.name = "replace"
    /\ op.key # NoSort
    /\ op.key.direction = "descending"
    /\ sortConfig = op.key
    /\ HasPattern

-----------------------------------------------------------------------------
(* Properties of the page over dataset replacements                        *)

C27_InRange == 1 <= currentPage /\ currentPage <= Maximum(1, totalPages)

\* an out-of-range page with an empty row window, the first item shown
\* after the last
C27_EmptyWindow ==
    /\ ~C27_InRange
    /\ paginatedData = <<>>
    /\ startItem(currentPage) > endItem(currentPage, Len(filteredData))

\* C27: in every state reachable by any interleaving of dataset replacement
\* (a new upload while the table stays mounted), requestSort, setFilter and
\* page changes, 1 <= currentPage <= max(1, ceil(filteredCount /
\* rowsPerPage)); replacing the dataset with one that yields fewer filtered
\* rows never leaves the table on an out-of-range page with an empty row
\* window and a start index greater than the end index.
C27_PageInRange == C27_InRange /\ ~C27_EmptyWindow

\* what the table does: every operation but the replacement of the row set
\* keeps the page in range
C27_OnlyReplacementBreaks ==
    [][data' = data /\ C27_InRange =>
          /\ 1 <= currentPage'
          /\ currentPage' <= Maximum(1,
                 totalPagesOf(Len(filteredDataOf(data, sortConfig', filters'))))]_vars

\* the table was on its second page when a row set with one row replaced the
\* rows: the page is still 2 and the window is empty
C27_StaleWitness ==
    /\ op.name = "replace"
    /\ op.value = currentPage
    /\ Len(data) = 1
    /\ C27_EmptyWindow

-----------------------------------------------------------------------------
(* The order of sorting and filtering                                      *)

\* the rows filtered first and sorted with the table comparator afterwards
C26_FilterThenSort == sortedDataOf(filteredDataOf(data, NoSort, filters), sortConfig)

\* the text "2" before the numbers 10 and 2, sorted upwards on Price and
\* filtered on Price by "2"
C26_Case ==
    /\ Len(data) = 3
    /\ data[1][2].v = Str(<<"2">>)
    /\ data[2][2].v = Num(100)
    /\ data[3][2].v = Num(20)
    /\ sortConfig = C24_Ascending
    /\ filters = [k \in {kPrice} |-> <<"2">>]

\* C26: there exist a row set, a SortConfig and a FilterConfig for which
\* filtering the rows and then sorting them with the table comparator yields
\* a different row sequence than the engine's order of sorting and then
\* filtering: for the row set, sort and filter of C26_Case the engine shows
\* the number 2 before the text "2", and filtering first gives the text
\* first.
C26_OrdersDiffer ==
    C26_Case =>
        /\ filteredData = <<data[3], data[1]>>
        /\ C26_FilterThenSort = <<data[1], data[3]>>
        /\ C26_FilterThenSort # filteredData

\* the case is reached and the two orders give different row sequences
C26_Witness == C26_Case /\ C26_FilterThenSort # filteredData

\* on a column of numbers only, or of no number, the two orders agree
C26_SameWhenUniform ==
    C24_UniformColumn => C26_FilterThenSort = filteredData

-----------------------------------------------------------------------------
(* Properties of the dataset against the file shown                        *)

\* the files with rows
C28_FilesWithRows == {file \in Files : file.outcome = "rows" /\ Len(file.rows) > 0}

\* the dataset of the core is that of the file
C28_Shows(file) ==
    /\ data = file.rows
    /\ headers = KeysOf(file.rows[1])

\* C28: the dataset held by the core always reflects the most recent user
\* file action: after select A then select B (or select A then clear), once
\* all pending reads have completed, the rows and headers are those of B
\* (or empty after clear), whatever order the asynchronous read callbacks
\* complete in, and they match the file name and upload status shown.
C28_ReflectsLastAction ==
    pending = {} =>
        /\ fileName = "" => data = <<>> /\ headers = <<>>
        /\ \A file \in C28_FilesWithRows : fileName = file.name => C28_Shows(file)
        /\ uploadStatus.status = "success" =>
              \E file \in C28_FilesWithRows : fileName = file.name /\ C28_Shows(file)

\* what the code does: the rows are those of the read that completed last,
\* or none after a clear, whatever file is named
C28_LastCompletionWins ==
    /\ [][\A file \in C28_FilesWithRows :
            ReaderOnLoad(file) => data' = file.rows /\ headers' = KeysOf(file.rows[1])]_vars
    /\ [][fileName' # fileName => UNCHANGED <<data, headers>> \/ data' = <<>>]_vars

\* the file chosen first was read last: its rows are held under the name of
\* the second file
C28_OvertakenWitness ==
    /\ pending = {}
    /\ fileName = FileNear.name
    /\ data = FileStocks.rows
    /\ uploadStatus.status = "success"

\* a read completed after the clear: rows are held with no file named
C28_AfterClearWitness ==
    /\ pending = {}
    /\ fileName = ""
    /\ data = FileStocks.rows

-----------------------------------------------------------------------------
(* The application pipeline: upload, columns, screens, ranking, display    *)

\* AppMain: the rows handed to the near-high panel
nearHighRows ==
    sortStocksByProximityToATH(stocksWithinThreshold, priceColumn, highColumn)

\* useStockAnalysis: the rows handed to the panel's table
processedData == addTradingViewSymbols(nearHighRows)

\* n / d rounded to the nearest integer, halves upwards, for n >= 0, d > 0
RoundHalfUp(n, d) == (2 * n + d) \div (2 * d)

\* percentFromHigh.toFixed(2), in hundredths of a percent
toFixed2(percent) ==
    IF percent.nan THEN NaN
    ELSE IF percent.num >= 0
    THEN Finite(RoundHalfUp(percent.num * 10000, percent.den))
    ELSE Finite(0 - RoundHalfUp((0 - percent.num) * 10000, percent.den))

\* useStockAnalysis.calculateRowPercentFromHigh: the value of the
\* "% From High" column of a row
calculateRowPercentFromHigh(row, pCol, hCol) ==
    LET priceKey == FindKey(row, {i \in 1..Len(row) :
                        \/ row[i].k = pCol
                        \/ includes(toLowerCase(row[i].k), sPrice)})
        highKey  == FindKey(row, {i \in 1..Len(row) :
                        \/ row[i].k = hCol
                        \/ includes(toLowerCase(row[i].k), sHigh)
                        \/ includes(toLowerCase(row[i].k), sAllTime)})
    IN  toFixed2(calculatePercentFromHigh(
                     extractNumericPrice(Get(row, priceKey.key)),
                     extractNumericPrice(Get(row, highKey.key))))

-----------------------------------------------------------------------------
(* Inputs of the pipeline specification                                    *)

\* at its all-time high, with a larger figure under another "high" header
RowTwoHighs == <<Cell(kSymbol, Str(sX)), Cell(kPrice, Num(1000)),
                 Cell(kHigh, Num(2000)), Cell(kHighAllTime, Num(1000))>>
\* the high under the header "High": 10% and 5% below it
RowHighTen  == <<Cell(kSymbol, Str(sX)), Cell(kPrice, Num(900)),
                 Cell(kHigh, Num(1000))>>
RowHighFive == <<Cell(kSymbol, Str(sY)), Cell(kPrice, Num(950)),
                 Cell(kHigh, Num(1000))>>

FilePlain    == File("plain.csv", TRUE, "rows", <<RowFar, RowA, RowNear, RowAtHigh>>)
FileTies     == File("ties.csv", TRUE, "rows", <<RowTie, RowAtHigh, RowA>>)
FileAbove    == File("above.csv", TRUE, "rows", <<RowC, RowNullPrice>>)
FileAlt      == File("alt.csv", TRUE, "rows", <<RowAlt>>)
FileTwoHighs == File("twohighs.csv", TRUE, "rows", <<RowTwoHighs>>)
FileHighOnly == File("highonly.csv", TRUE, "rows", <<RowHighTen, RowHighFive>>)

PipelineFiles == {FilePlain, FileTies, FileAbove, FileAlt, FileTwoHighs,
                  FileHighOnly}

\* files are chosen and read, and the file is cleared
NextPipeline ==
    \/ \E file \in PipelineFiles : handleFileSelection(file)
    \/ \E file \in PipelineFiles : ReaderOnLoad(file)
    \/ clearFile

SpecPipeline == InitUpload /\ [][NextPipeline]_vars

-----------------------------------------------------------------------------
(* Properties of the two screens in the pipeline                           *)

\* the rows of q
C29_RowsOf(q) == {q[i] : i \in 1..Len(q)}

\* C29: in the application pipeline (columns taken from findColumnNames,
\* threshold 20, default tolerance 0.1) every row returned by the at-high
\* screen is also returned by the within-threshold screen, for every dataset
\* and header list including rows with several keys containing "high" or
\* "price".
C29_AtHighWithinThreshold ==
    C29_RowsOf(stocksAtAllTimeHigh) \subseteq C29_RowsOf(stocksWithinThreshold)

\* each row has one key containing "price" and one containing "high" or
\* "all time", and these are the columns found in the headers
C29_SingleKeys ==
    \A i \in 1..Len(data) :
        /\ priceColumn # <<>> /\ highColumn # <<>>
        /\ \A j \in 1..Len(data[i]) :
              /\ C9_Contains(data[i][j].k, sPrice) => data[i][j].k = priceColumn
              /\ C9_Contains(data[i][j].k, sHigh) \/ C9_Contains(data[i][j].k, sAllTime)
                    => data[i][j].k = highColumn

\* with such rows the at-high rows are among the within-threshold rows
C29_WithinWhenSingleKeys ==
    C29_SingleKeys => C29_AtHighWithinThreshold

\* a row at its all-time high with a second "high" key is in the at-high
\* panel and not in the near-high panel
C29_TwoHighsWitness ==
    /\ data = <<RowTwoHighs>>
    /\ highColumn = kHighAllTime
    /\ stocksAtAllTimeHigh = <<RowTwoHighs>>
    /\ stocksWithinThreshold = <<>>

\* rows at the high are in both panels
C29_BothWitness ==
    /\ data = FilePlain.rows
    /\ C29_SingleKeys
    /\ RowAtHigh \in C29_RowsOf(stocksAtAllTimeHigh)
    /\ RowAtHigh \in C29_RowsOf(stocksWithinThreshold)

-----------------------------------------------------------------------------
(* Properties of the near-high table                                       *)

\* the "% From High" values of the table rows, in the order shown when no
\* table sort is active
C30_Displayed ==
    [i \in 1..Len(processedData) |->
        calculateRowPercentFromHigh(processedData[i], priceColumn, highColumn)]

C30_NonDecreasing(q) ==
    \A i \in 1..(Len(q) - 1) :
        ~isNaN(q[i]) /\ ~isNaN(q[i + 1]) /\ q[i].v <= q[i + 1].v

\* the threshold in hundredths of a percent
C30_Threshold == PERCENT_THRESHOLD * 10

\* C30: with no table sort active the rows of the near-high table appear in
\* non-decreasing order of the displayed "% From High" value, and every
\* displayed value is <= the screening threshold: the key resolution of the
\* ranking, of the screen and of the displayed column agree on every row,
\* including datasets whose high header matches "high" but none of "high all
\* time", "all time high", "ath".
C30_RankedAsDisplayed ==
    sortConfig = NoSort =>
        /\ C30_NonDecreasing(C30_Displayed)
        /\ \A i \in 1..Len(C30_Displayed) :
              ~isNaN(C30_Displayed[i]) /\ C30_Displayed[i].v <= C30_Threshold

\* where the columns are found and each row has single keys the table is in
\* the order of the displayed values, all within the threshold
C30_RankedWhenSingleKeys ==
    C29_SingleKeys => C30_RankedAsDisplayed

\* the high under the header "High": no high column is found, the rows are
\* left as uploaded and shown as 10.00% before 5.00%
C30_HighOnlyWitness ==
    /\ data = FileHighOnly.rows
    /\ highColumn = <<>>
    /\ Len(processedData) = 2
    /\ C30_Displayed = <<Finite(1000), Finite(500)>>

\* an upload ranked as displayed: 0.00%, 0.10%, 5.00%
C30_PlainWitness ==
    /\ data = FilePlain.rows
    /\ C30_Displayed = <<Finite(0), Finite(10), Finite(500)>>

=============================================================================
